---- MODULE Spec2Model ----
(***************************************************************************)
(* Verification model of solana-validator-snapshot-keeper.                 *)
(*                                                                         *)
(* The module holds several specifications over one set of variables:      *)
(*   SpecPrune   - pruner.Prune applied to a snapshot directory            *)
(*   SpecAssess  - Keeper.assessFreshness over a directory and a tip       *)
(*   SpecLock    - Manager.acquireLock / releaseLock of two processes      *)
(*   SpecDl      - downloader.Download (HEAD, transfer, speed gate,        *)
(*                 finalize) against a server and an outer context         *)
(*   SpecRun     - Keeper.Run, one cycle of the orchestrator               *)
(*   SpecProbe   - probeNodes / probePairedNodes, one round of probes      *)
(*   FairSpecProbeAny - a round of probes under any accepted concurrency,  *)
(*                 with the scheduler's fairness                           *)
(*   SpecProbeBase - DiscoverIncrementalForBase: a round of probes and the *)
(*                 filter on the base slot                                 *)
(*   SpecChunks  - the byte ranges of downloadParallel                     *)
(*   SpecChunkWrite - the positional writes of the downloadChunk calls     *)
(*   SpecSort    - sortNodes over a gathered list of probe results         *)
(*   SpecBoundary - calculateNextBoundary over instants and intervals      *)
(*   SpecPaired  - probePairedNode over the answers of one node            *)
(*   SpecRunCluster - Keeper.Run of a passive validator against larger     *)
(*                 clusters                                                *)
(*   SpecRunStale - Keeper.Run with a local full newer than a served one   *)
(* A specification leaves the variables of the other parts at their idle   *)
(* values.                                                                 *)
(***************************************************************************)
EXTENDS Integers, Sequences, FiniteSets, TLC

\* ------------------------------------------------------------------ bounds
\* highest slot of a snapshot file in the enumerated directories
MaxSlot == 2
\* largest number of entries of an enumerated initial directory
MaxFiles == 5
\* largest local.max_incremental_slots enumerated (validation asks >= 1)
MaxThreshold == 2
\* number of Prune calls made in a row
MaxPrunes == 2
\* number of cycles a keeper process starts (RunOnce: one; RunOnInterval: the
\* loop is cut after this many)
MaxCycles == 2
\* largest Content-Length of a served snapshot, in units of one read buffer
MaxLen == 2
\* largest snapshots.download.connections enumerated (validation asks >= 1)
MaxConns == 2
\* largest snapshots.download.min_speed enumerated, in units per tick (the
\* values tried are 0 = gate off, 1 and this one)
MaxSpeed == 3
\* largest snapshots.download.min_speed_check_delay enumerated, in ticks
MaxDelay == 1
\* the snapshots.download.timeout of the model, in ticks (validation asks > 0)
MaxTimeout == 1
\* ticks of the clock a download is followed for
MaxTime == 2
\* largest Content-Length the chunk ranges are computed for, in bytes
MaxContentLength == 9
\* largest snapshots.download.connections the chunk ranges are computed for
MaxChunkConns == 5
\* longest list of probe results handed to sortNodes
MaxResults == 3
\* largest latency and largest slot age of a probe result
MaxKey == 1
\* length of a day, in ticks of the wall clock
DayLen == 6
\* latest time.Now() handed to calculateNextBoundary, in ticks since a midnight
MaxNow == 11
\* largest interval handed to calculateNextBoundary, in ticks
MaxInterval == 8
\* highest slot in a file name a probed node redirects to
MaxRemoteSlot == 3
\* largest snapshots.discovery.probe.max_latency enumerated, in ticks
MaxLatency == 1
\* largest snapshots.age.remote.max_slots enumerated (validation asks >= 1)
MaxAge == 2
\* largest Content-Length the chunk writes are followed for, in bytes
MaxWriteLen == 3
\* largest snapshots.download.connections the chunk writes are followed for
MaxWriteConns == 2
\* bytes a server may send beyond the length of the range it was asked for
MaxExtra == 1
\* number of addresses handed to a round of probes
MaxAddrs == 3
\* largest min_suitable enumerated (0: probe all)
MaxMinSuitable == 2
\* largest snapshots.discovery.probe.concurrency enumerated
MaxProbeConc == 2

\* ------------------------------------------------------------ file names
\* A directory entry is a name split into the parts the regular expressions
\* of pruner.go look at: stem, the numeric groups, the hash, the compression
\* extension after ".tar." ("tar" stands for an uncompressed name, which
\* has none) and a trailing suffix ("" when there is none).
Hashes == {"A", "B"}

CompressedExts == {"zst", "bz2", "gz"}

FullName(slot, hash) ==
    [stem |-> "snapshot", base |-> 0, slot |-> slot, hash |-> hash,
     ext |-> "zst", suf |-> "", isDir |-> FALSE]

IncrName(base, slot, hash) ==
    [stem |-> "incremental-snapshot", base |-> base, slot |-> slot,
     hash |-> hash, ext |-> "zst", suf |-> "", isDir |-> FALSE]

TmpName(f) == [f EXCEPT !.suf = "tmp"]

\* tempFileRe: \.(tmp|partial)$
tempFileRe(f) == f.suf \in {"tmp", "partial"}

\* fullSnapshotRe: ^snapshot-(\d+)-[A-Za-z0-9]+\.tar\.(zst|bz2|gz)$
fullSnapshotRe(f) ==
    /\ f.stem = "snapshot"
    /\ f.ext \in CompressedExts
    /\ f.suf = ""

\* incrementalSnapshotRe: ^incremental-snapshot-(\d+)-(\d+)-[A-Za-z0-9]+\.tar\.(zst|bz2|gz)$
incrementalSnapshotRe(f) ==
    /\ f.stem = "incremental-snapshot"
    /\ f.ext \in CompressedExts
    /\ f.suf = ""

\* The names the enumerated directories are drawn from.
LocalFulls == {FullName(s, h) : s \in 1..MaxSlot, h \in Hashes}

LocalIncrs ==
    {IncrName(b, s, "A") : b \in 1..MaxSlot, s \in 2..(MaxSlot + 1)}

LocalTemps ==
    {TmpName(FullName(1, "A")),
     [IncrName(1, 2, "B") EXCEPT !.suf = "partial"]}

LocalOthers ==
    {[FullName(MaxSlot + 1, "A") EXCEPT !.ext = "tar"],
     [FullName(MaxSlot + 1, "B") EXCEPT !.isDir = TRUE],
     [stem |-> "notes", base |-> 0, slot |-> 0, hash |-> "A",
      ext |-> "tar", suf |-> "", isDir |-> FALSE]}

LocalUniverse == LocalFulls \cup LocalIncrs \cup LocalTemps \cup LocalOthers

Dirs == {d \in SUBSET LocalUniverse : Cardinality(d) <= MaxFiles}

VARIABLES
    dir,        \* entries of the snapshot directory
    readable,   \* whether os.ReadDir of the directory succeeds
    pr,         \* Prune calls: [count, before, err]
    as,         \* assessFreshness call: [tip, threshold, called, mode, base]
    lockFile,   \* content of <snapshot_dir>/solana-validator-snapshot-keeper.lock
    lk,         \* per keeper process: position in RunOnce / RunOnInterval
    now,        \* the clock, in ticks
    srv,        \* the snapshot server: [ranges, clen]
    opts,       \* downloader.Options: [conns, minSpeed, delay, timeout]
    ctxOuter,   \* the ctx handed to Download: "live" or "cancelled"
    dl,         \* the Download call: [pc, err, start, dir0]
    xf,         \* the transfer: [inner, gate, due, seen, total, derr, sent]
    wk,         \* chunk workers of downloadParallel: [pc, first, last, offset]
    identity,   \* what the local validator answers to getIdentity
    net,        \* per cluster node: the snapshots it serves
    run,        \* Keeper.Run: its position and locals
    mon,        \* monitorIdentity goroutine: [started, observed]
    rdl,        \* the Download call Run is waiting for: [pc, file, ctx, purpose]
    calls,      \* what the cycle did so far, counted
    pb,         \* probeNodes / probePairedNodes: options and shared state;
                \* DiscoverIncrementalForBase: [match, filtered, matching]
    pg,         \* per address: its probe goroutine [pc, suitable, n] and when
                \* it got its slot [late, afterCancel]
    ck,         \* downloadParallel's chunk loop: [clen, conns, i, ranges]
    sr,         \* a sortNodes call: [order, nodes, out, pc]
    nb,         \* a calculateNextBoundary call: [now, interval, next, pc]
    pp,         \* a probePairedNode call: the node's answers, the options,
                \* the two probeNode results and what is returned
    cw          \* the downloadChunk calls of one downloadParallel: [clen,
                \* conns, chunk, writes]

localVars == <<dir, readable, pr, as>>

lockVars == <<lockFile, lk>>

dlVars == <<now, srv, opts, ctxOuter, dl, xf, wk>>

runVars == <<identity, net, run, mon, rdl, calls>>

probeVars == <<pb, pg>>

calcVars == <<ck, sr, nb, pp, cw>>

vars == <<dir, readable, pr, as, lockFile, lk,
          now, srv, opts, ctxOuter, dl, xf, wk,
          identity, net, run, mon, rdl, calls, pb, pg,
          ck, sr, nb, pp, cw>>

\* ------------------------------------------------------------- pruner.go
\* SnapshotFile values Prune builds from the entries (directories skipped,
\* temp names taken first).
PruneTempFiles(d) == {f \in d : ~f.isDir /\ tempFileRe(f)}

PruneFulls(d) == {f \in d : ~f.isDir /\ ~tempFileRe(f) /\ fullSnapshotRe(f)}

PruneIncrementals(d) ==
    {f \in d : /\ ~f.isDir
               /\ ~tempFileRe(f)
               /\ ~fullSnapshotRe(f)
               /\ incrementalSnapshotRe(f)}

\* fulls[0] after sort.Slice by slot descending: sort.Slice is not stable, so
\* among fulls of equal highest slot any one may come first.
NewestFullChoices(fulls) == {f \in fulls : \A g \in fulls : g.slot <= f.slot}

\* Mutant of KeptIncrementalChoices: the sort of the incrementals is ascending,
\* so the oldest matching incremental is the one kept.
KeptIncrementalChoices_Oldest(incs, newestFull) ==
    LET matching == {i \in incs : i.base = newestFull.slot}
    IN  {i \in matching : \A j \in matching : i.slot <= j.slot}

\* The incremental the loop keeps: the first, in slot-descending order, whose
\* BaseSlot equals newestFull.Slot (none when there is no such incremental).
KeptIncrementalChoices(incs, newestFull) ==
    LET matching == {i \in incs : i.base = newestFull.slot}
    IN  {i \in matching : \A j \in matching : j.slot <= i.slot}

\* Mutant of PruneResults: the incremental loop compares BaseSlot with the
\* oldest full (the last of the sorted slice) instead of the newest.
PruneResults_StaleBase(d) ==
    LET noTemp == d \ PruneTempFiles(d)
        fulls  == PruneFulls(d)
        incs   == PruneIncrementals(d)
        rest   == noTemp \ (fulls \cup incs)
        oldest == {f \in fulls : \A g \in fulls : f.slot <= g.slot}
    IN  IF fulls = {}
        THEN {noTemp}
        ELSE UNION
             {LET kept == KeptIncrementalChoices(incs, CHOOSE o \in oldest : TRUE)
              IN  IF kept = {}
                  THEN {rest \cup {nf}}
                  ELSE {rest \cup {nf, k} : k \in kept}
              : nf \in NewestFullChoices(fulls)}

\* The directory contents Prune can leave behind.
PruneResults(d) ==
    LET noTemp == d \ PruneTempFiles(d)
        fulls  == PruneFulls(d)
        incs   == PruneIncrementals(d)
        rest   == noTemp \ (fulls \cup incs)
    IN  IF fulls = {}
        THEN {noTemp}
        ELSE UNION
             {LET kept == KeptIncrementalChoices(incs, nf)
              IN  IF kept = {}
                  THEN {rest \cup {nf}}
                  ELSE {rest \cup {nf, k} : k \in kept}
              : nf \in NewestFullChoices(fulls)}

PruneIdle == [count |-> 0, before |-> {}, err |-> FALSE]

Prune ==
    /\ pr.count < MaxPrunes
    /\ IF ~readable
       THEN /\ dir' = dir
            /\ pr' = [count |-> pr.count + 1, before |-> dir, err |-> TRUE]
       ELSE /\ dir' \in PruneResults(dir)
            /\ pr' = [count |-> pr.count + 1, before |-> dir, err |-> FALSE]
    /\ UNCHANGED <<readable, as, lockVars, dlVars, runVars, probeVars, calcVars>>

AssessIdle == [tip |-> 0, threshold |-> 1, called |-> FALSE,
               mode |-> "none", base |-> 0]

\* ------------------------------------------------------ manager (lock file)
\* Keeper processes that are started, by their PID.
Procs == {1, 2}

\* A PID no process has: what a crashed keeper left in the lock file.
DeadPids == {9}

NoLockFile == [state |-> "absent", pid |-> 0]

\* A lock file json.Unmarshal rejects.
GarbageLockFile == [state |-> "garbage", pid |-> 0]

LockFileOf(pid) == [state |-> "ok", pid |-> pid]

LockIdle ==
    [p \in Procs |->
        [pc |-> "exited", kind |-> "once", cycles |-> 0, skipped |-> 0,
         ran |-> 0, acquired |-> "none", seen |-> NoLockFile,
         runErr |-> FALSE]]

LocalIdle ==
    /\ dir = {}
    /\ readable = TRUE
    /\ pr = PruneIdle
    /\ as = AssessIdle

LockVarsIdle ==
    /\ lockFile = NoLockFile
    /\ lk = LockIdle

\* ------------------------------------------------ downloader (idle values)
Workers == 0..(MaxConns - 1)

XferIdle ==
    [inner |-> FALSE, gate |-> "off", due |-> 0, seen |-> 0, total |-> 0,
     derr |-> "none", sent |-> 0]

WorkersIdle ==
    [i \in Workers |-> [pc |-> "idle", first |-> 0, last |-> 0, offset |-> 0]]

DlVarsIdle ==
    /\ now = 0
    /\ srv = [ranges |-> FALSE, clen |-> 0]
    /\ opts = [conns |-> 1, minSpeed |-> 0, delay |-> 0, timeout |-> 1]
    /\ ctxOuter = "live"
    /\ dl = [pc |-> "idle", err |-> "none", start |-> 0, dir0 |-> {}]
    /\ xf = XferIdle
    /\ wk = WorkersIdle

\* ------------------------------------------------ keeper.Run (idle values)
RemoteNodes == {1, 2, 3, 4}

NoOffer == [full |-> 0, ibase |-> 0, islot |-> 0]

NoCalls ==
    [getIdentity |-> 0, getSlot |-> 0, getClusterNodes |-> 0, probe |-> 0,
     probeFull |-> 0, download |-> 0, started |-> 0, finalized |-> 0,
     fullOk |-> 0, prune |-> 0, onSuccess |-> 0, onFailure |-> 0]

NoDownload == [pc |-> "idle", file |-> {}, ctx |-> "none", purpose |-> "none"]

RunLocals ==
    [pc |-> "idle", role |-> "none", currentSlot |-> 0, mode |-> "none",
     localFullSlot |-> 0, candidates |-> <<>>, paired |-> <<>>, i |-> 0,
     result |-> "nil", selectedSlot |-> 0, pairedDone |-> FALSE,
     pairedIncr |-> "none", ret |-> "none", err |-> "none", dir0 |-> {},
     followed |-> FALSE, attempts |-> <<>>,
     pruneErr |-> FALSE, hookErr |-> FALSE]

RunVarsIdle ==
    /\ identity = "passive"
    /\ net = [n \in RemoteNodes |-> NoOffer]
    /\ run = RunLocals
    /\ mon = [started |-> FALSE, observed |-> FALSE]
    /\ rdl = NoDownload
    /\ calls = NoCalls

\* --------------------------------------------------- discovery (idle values)
ProbeAddrs == 1..MaxAddrs

ProbeIdle ==
    [k |-> 0, c |-> 1, paired |-> FALSE, sem |-> 0, done |-> FALSE,
     outer |-> FALSE, suitable |-> 0, results |-> {}, once |-> FALSE,
     returned |-> TRUE, match |-> {}, filtered |-> FALSE, matching |-> {}]

ProbeVarsIdle ==
    /\ pb = ProbeIdle
    /\ pg = [a \in ProbeAddrs |->
               [pc |-> "done", suitable |-> FALSE, n |-> 0,
                late |-> FALSE, afterCancel |-> FALSE]]

\* ------------------------------------------- pure functions (idle values)
ChunksIdle == [clen |-> 0, conns |-> 1, i |-> 1, ranges |-> <<>>]

SortIdle == [order |-> "latency", nodes |-> <<>>, out |-> <<>>, pc |-> "idle"]

BoundaryIdle == [now |-> 0, interval |-> 0, next |-> 0, pc |-> "idle"]

NoAnswer ==
    [err |-> TRUE, latency |-> 0, status |-> "none", hasLocation |-> FALSE,
     host |-> "none", name |-> {}]

NoNode == [ok |-> FALSE, reason |-> "none"]

PairedIdle ==
    [answer |-> [full |-> NoAnswer, incremental |-> NoAnswer], currentSlot |-> 0,
     maxLatency |-> 0, maxAge |-> 0, pc |-> "idle", full |-> NoNode,
     incr |-> NoNode, ret |-> NoNode]

WritesIdle == [clen |-> 0, conns |-> 0, chunk |-> <<>>, writes |-> {}]

CalcVarsIdle ==
    /\ ck = ChunksIdle
    /\ sr = SortIdle
    /\ nb = BoundaryIdle
    /\ pp = PairedIdle
    /\ cw = WritesIdle

InitPrune ==
    /\ ProbeVarsIdle
    /\ CalcVarsIdle
    /\ RunVarsIdle
    /\ dir \in Dirs
    /\ readable \in BOOLEAN
    /\ pr = PruneIdle
    /\ as = AssessIdle
    /\ LockVarsIdle
    /\ DlVarsIdle

NextPrune == Prune

SpecPrune == InitPrune /\ [][NextPrune]_vars

\* ------------------------------------------------- pruner.go (inventory)
\* GetLocalSnapshots: the SnapshotFile of every entry that is no directory and
\* matches the full or, failing that, the incremental pattern.
GetLocalSnapshots(d) ==
    {[path |-> f, slot |-> f.slot, base |-> 0, isFull |-> TRUE] :
        f \in {g \in d : ~g.isDir /\ fullSnapshotRe(g)}}
    \cup
    {[path |-> f, slot |-> f.slot, base |-> f.base, isFull |-> FALSE] :
        f \in {g \in d : ~g.isDir /\ ~fullSnapshotRe(g)
                         /\ incrementalSnapshotRe(g)}}

\* NewestSlot: the loop "if s.Slot > newest { newest = s.Slot }" from 0.
RECURSIVE NewestSlotFrom(_, _)
NewestSlotFrom(snapshots, newest) ==
    IF snapshots = {}
    THEN newest
    ELSE LET s == CHOOSE x \in snapshots : TRUE
         IN  NewestSlotFrom(snapshots \ {s},
                            IF s.slot > newest THEN s.slot ELSE newest)

NewestSlot(snapshots) == NewestSlotFrom(snapshots, 0)

\* NewestFullSnapshot: nil (the empty set here) or the full a later full must
\* beat with a strictly higher slot; only its Slot is read by the callers.
RECURSIVE NewestFullFrom(_, _)
NewestFullFrom(snapshots, newest) ==
    IF snapshots = {}
    THEN newest
    ELSE LET s == CHOOSE x \in snapshots : TRUE
         IN  NewestFullFrom(
                 snapshots \ {s},
                 IF s.isFull /\ (newest = {} \/ \A n \in newest : s.slot > n.slot)
                 THEN {s} ELSE newest)

NewestFullSnapshot(snapshots) == NewestFullFrom(snapshots, {})

\* ------------------------------------------------ keeper.assessFreshness
\* Mutant of assessFreshness: the threshold comparison is strict.
assessFreshness_StrictAge(d, rd, currentSlot, skipThreshold) ==
    IF ~rd
    THEN [mode |-> "full", base |-> 0]
    ELSE LET snapshots  == GetLocalSnapshots(d)
             newestSlot == NewestSlot(snapshots)
             newestFull == NewestFullSnapshot(snapshots)
         IN  IF snapshots = {} THEN [mode |-> "full", base |-> 0]
             ELSE IF newestSlot >= currentSlot THEN [mode |-> "skip", base |-> 0]
             ELSE IF currentSlot - newestSlot < skipThreshold
                  THEN [mode |-> "skip", base |-> 0]
             ELSE IF newestFull # {}
                  THEN [mode |-> "incremental",
                        base |-> (CHOOSE n \in newestFull : TRUE).slot]
             ELSE [mode |-> "full", base |-> 0]

assessFreshness(d, rd, currentSlot, skipThreshold) ==
    IF ~rd
    THEN [mode |-> "full", base |-> 0]
    ELSE LET snapshots  == GetLocalSnapshots(d)
             newestSlot == NewestSlot(snapshots)
             newestFull == NewestFullSnapshot(snapshots)
         IN  IF snapshots = {} THEN [mode |-> "full", base |-> 0]
             ELSE IF newestSlot >= currentSlot THEN [mode |-> "skip", base |-> 0]
             ELSE IF currentSlot - newestSlot <= skipThreshold
                  THEN [mode |-> "skip", base |-> 0]
             ELSE IF newestFull # {}
                  THEN [mode |-> "incremental",
                        base |-> (CHOOSE n \in newestFull : TRUE).slot]
             ELSE [mode |-> "full", base |-> 0]

\* Tips enumerated: from 0 to past the newest possible local slot by more
\* than the largest threshold.
Tips == 0..(MaxSlot + MaxThreshold + 2)

Assess ==
    /\ ~as.called
    /\ LET r == assessFreshness(dir, readable, as.tip, as.threshold)
       IN  as' = [as EXCEPT !.called = TRUE, !.mode = r.mode, !.base = r.base]
    /\ UNCHANGED <<dir, readable, pr, lockVars, dlVars, runVars, probeVars, calcVars>>

InitAssess ==
    /\ ProbeVarsIdle
    /\ CalcVarsIdle
    /\ RunVarsIdle
    /\ dir \in Dirs
    /\ readable \in BOOLEAN
    /\ pr = PruneIdle
    /\ \E t \in Tips, th \in 1..MaxThreshold :
         as = [AssessIdle EXCEPT !.tip = t, !.threshold = th]
    /\ LockVarsIdle
    /\ DlVarsIdle

NextAssess == Assess

SpecAssess == InitAssess /\ [][NextAssess]_vars

\* Mutant of isProcessAlive: FindProcess never fails on Unix, and its error
\* alone is taken for the answer, so that no PID passes for alive.
isProcessAlive_Never(pid) == FALSE

\* ------------------------------------------------------------ manager.go
\* isProcessAlive: signal 0 reaches the PID. A keeper process is alive until
\* it has exited.
isProcessAlive(pid) == pid \in Procs /\ lk[pid].pc # "exited"

\* What acquireLock decides from the bytes os.ReadFile returned.
LockHeldByLive(data) == data.state = "ok" /\ isProcessAlive(data.pid)

\* acquireLock, first half: os.ReadFile, json.Unmarshal, isProcessAlive. With a
\* live owner it returns the error: RunOnce returns it, RunOnInterval logs and
\* goes on to the next boundary.
AcquireRead(p) ==
    /\ lk[p].pc = "acquire"
    /\ IF LockHeldByLive(lockFile)
       THEN lk' = [lk EXCEPT
                ![p].acquired = "error",
                ![p].seen = lockFile,
                ![p].skipped = @ + 1,
                ![p].pc = IF lk[p].kind = "once" THEN "exited" ELSE "sleep"]
       ELSE lk' = [lk EXCEPT ![p].seen = lockFile, ![p].pc = "write"]
    /\ UNCHANGED <<lockFile, localVars, dlVars, runVars, probeVars, calcVars>>

\* acquireLock, second half: os.WriteFile of {pid, started_at}, return nil.
AcquireWrite(p) ==
    /\ lk[p].pc = "write"
    /\ lockFile' = LockFileOf(p)
    /\ lk' = [lk EXCEPT ![p].acquired = "ok", ![p].pc = "run"]
    /\ UNCHANGED <<localVars, dlVars, runVars, probeVars, calcVars>>

\* m.keeper.Run returns, with nil or with an error.
KeeperRunReturns(p) ==
    /\ lk[p].pc = "run"
    /\ \E failed \in BOOLEAN :
         lk' = [lk EXCEPT ![p].ran = @ + 1, ![p].runErr = failed,
                          ![p].pc = "release"]
    /\ UNCHANGED <<lockFile, localVars, dlVars, runVars, probeVars, calcVars>>

\* Mutant of LockFileAfterRemove: releaseLock leaves the file in place.
LockFileAfterRemove_Keep(f) == f

\* os.Remove(lockPath): whatever the file held, it is gone.
LockFileAfterRemove(f) == NoLockFile

\* releaseLock: os.Remove, a missing file is no error. RunOnce returns after
\* it (deferred); RunOnInterval loops.
ReleaseLock(p) ==
    /\ lk[p].pc = "release"
    /\ lockFile' = LockFileAfterRemove(lockFile)
    /\ lk' = [lk EXCEPT
           ![p].pc = IF lk[p].kind = "once" THEN "exited" ELSE "sleep"]
    /\ UNCHANGED <<localVars, dlVars, runVars, probeVars, calcVars>>

\* RunOnInterval: time.Sleep until the next boundary is over.
Boundary(p) ==
    /\ lk[p].pc = "sleep"
    /\ lk[p].cycles < MaxCycles
    /\ lk' = [lk EXCEPT ![p].cycles = @ + 1, ![p].acquired = "none",
                        ![p].pc = "acquire"]
    /\ UNCHANGED <<lockFile, localVars, dlVars, runVars, probeVars, calcVars>>

\* Two keeper processes are started (each by RunOnce or RunOnInterval) on a
\* directory whose lock file is absent, unparsable, or left by a dead PID.
InitLock ==
    /\ ProbeVarsIdle
    /\ CalcVarsIdle
    /\ RunVarsIdle
    /\ LocalIdle
    /\ DlVarsIdle
    /\ lockFile \in {NoLockFile, GarbageLockFile}
                    \cup {LockFileOf(d) : d \in DeadPids}
    /\ \E k1 \in {"once", "interval"}, k2 \in {"once", "interval"} :
         lk = [p \in Procs |->
                 [pc |-> IF (IF p = 1 THEN k1 ELSE k2) = "once"
                         THEN "acquire" ELSE "sleep",
                  kind |-> IF p = 1 THEN k1 ELSE k2,
                  cycles |-> IF (IF p = 1 THEN k1 ELSE k2) = "once"
                             THEN 1 ELSE 0,
                  skipped |-> 0, ran |-> 0, acquired |-> "none",
                  seen |-> NoLockFile, runErr |-> FALSE]]

NextLock ==
    \E p \in Procs :
        \/ Boundary(p)
        \/ AcquireRead(p)
        \/ AcquireWrite(p)
        \/ KeeperRunReturns(p)
        \/ ReleaseLock(p)

SpecLock == InitLock /\ [][NextLock]_vars

\* ---------------------------------------------------------- downloader.go
\* destPath, tempPath and another entry of destDir.
DlDest == FullName(1, "A")

DlTemp == TmpName(DlDest)

DlBystander == IncrName(1, 2, "A")

\* downloadCtx.Done() of downloadParallel / downloadSingle: the child context
\* is done when its cancel was called or its parent is done.
InnerDone == xf.inner \/ ctxOuter = "cancelled"

supportsRange == srv.ranges /\ srv.clen > 0

UseParallel == supportsRange /\ opts.conns > 1

\* Units the server streams on a plain GET (one when it announced no length).
BodyLen == IF srv.clen > 0 THEN srv.clen ELSE 1

\* Mutant of ChunkRange: the last chunk ends like the others.
ChunkRange_NoRemainder(contentLength, numConns, i) ==
    LET size == contentLength \div numConns
    IN  [start |-> i * size, end |-> i * size + size - 1]

\* downloadParallel: chunkSize := contentLength / int64(numConns), and in the
\* launch loop rangeStart, rangeEnd of chunk i (the last one ends at
\* contentLength - 1).
ChunkRange(contentLength, numConns, i) ==
    LET size  == contentLength \div numConns
        start == i * size
    IN  [start |-> start,
         end   |-> IF i = numConns - 1 THEN contentLength - 1
                   ELSE start + size - 1]

chunkSize == srv.clen \div opts.conns

rangeStart(i) == ChunkRange(srv.clen, opts.conns, i).start

rangeEnd(i) == ChunkRange(srv.clen, opts.conns, i).end

\* Mutant of SpeedBelowMinimum: the comparison is not strict.
SpeedBelowMinimum_NotStrict(downloaded, delay, minSpeed) ==
    downloaded <= minSpeed * delay

\* float64(downloaded) / MinSpeedCheckDelay.Seconds() < float64(MinDownloadSpeedBytes),
\* with delay > 0: the quotient is below minSpeed exactly when downloaded is
\* below minSpeed * delay.
SpeedBelowMinimum(downloaded, delay, minSpeed) == downloaded < minSpeed * delay

\* Mutant of errOnceDo: the last error recorded replaces the earlier one.
errOnceDo_LastWins(recorded, err) == err

\* errOnce.Do(func() { downloadErr = ... }): only the first call assigns.
errOnceDo(recorded, err) == IF recorded = "none" THEN err ELSE recorded

GateStart == IF opts.delay > 0 /\ opts.minSpeed > 0 THEN "armed" ELSE "off"

InTransfer == dl.pc \in {"par_wait", "single_top", "single_read"}

\* Mutant of DirAfterFailure: the error path returns without os.Remove.
DirAfterFailure_Keep(d) == d

\* os.Remove(tempPath) of the error paths of Download.
DirAfterFailure(d) == d \ {DlTemp}

\* os.Rename(tempPath, destPath).
DirAfterRename(d) == (d \ {DlTemp}) \cup {DlDest}

\* HEAD request: a transport error, or a ctx that is already done, ends the
\* call at once (nothing is removed); else the headers are in.
HeadRequest ==
    /\ dl.pc = "head"
    /\ \/ dl' = [dl EXCEPT !.pc = "returned", !.err = "head"]
       \/ /\ ctxOuter = "live"
          /\ dl' = [dl EXCEPT !.pc = "select"]
    /\ UNCHANGED <<dir, now, srv, opts, ctxOuter, xf, wk, localVars, lockVars, runVars, probeVars, calcVars>>

\* downloadParallel up to wg.Wait: create and truncate the temp file, start the
\* speed gate and one worker per chunk.
StartParallel ==
    /\ dl.pc = "select"
    /\ UseParallel
    /\ dir' = dir \cup {DlTemp}
    /\ xf' = [XferIdle EXCEPT !.gate = GateStart, !.due = now + opts.delay]
    /\ wk' = [i \in Workers |->
                IF i < opts.conns
                THEN [pc |-> "get", first |-> rangeStart(i),
                      last |-> rangeEnd(i), offset |-> rangeStart(i)]
                ELSE WorkersIdle[i]]
    /\ dl' = [dl EXCEPT !.pc = "par_wait"]
    /\ UNCHANGED <<readable, pr, as, now, srv, opts, ctxOuter, lockVars, runVars, probeVars, calcVars>>

\* downloadSingle up to the read loop: GET (error, or status not 200, returns
\* before the temp file exists), create the temp file, start the speed gate.
StartSingle ==
    /\ dl.pc = "select"
    /\ ~UseParallel
    /\ \/ /\ dl' = [dl EXCEPT !.pc = "failed", !.err = "get"]
          /\ UNCHANGED <<dir, xf>>
       \/ /\ ctxOuter = "live"
          /\ dir' = dir \cup {DlTemp}
          /\ xf' = [XferIdle EXCEPT !.gate = GateStart, !.due = now + opts.delay]
          /\ dl' = [dl EXCEPT !.pc = "single_top"]
    /\ UNCHANGED <<readable, pr, as, now, srv, opts, ctxOuter, wk, lockVars, runVars, probeVars, calcVars>>

\* The speed gate goroutine, case <-timer.C: read totalDownloaded, and when the
\* speed is below the minimum record the error (parallel path: errOnce) and
\* cancel downloadCtx.
GateFire ==
    /\ xf.gate = "armed"
    /\ now >= xf.due
    /\ InTransfer
    /\ LET slow == SpeedBelowMinimum(xf.total, opts.delay, opts.minSpeed)
       IN  xf' = [xf EXCEPT
                !.seen = xf.total,
                !.gate = IF slow THEN "slow" ELSE "passed",
                !.inner = @ \/ slow,
                !.derr = IF slow /\ dl.pc = "par_wait"
                         THEN errOnceDo(@, "speed") ELSE @]
    /\ UNCHANGED <<dir, now, srv, opts, ctxOuter, dl, wk, localVars, lockVars, runVars, probeVars, calcVars>>

\* The speed gate goroutine, case <-downloadCtx.Done() (its exit after the
\* transfer has returned changes nothing and is left out).
GateQuit ==
    /\ xf.gate = "armed"
    /\ InnerDone
    /\ InTransfer
    /\ xf' = [xf EXCEPT !.gate = "quit"]
    /\ UNCHANGED <<dir, now, srv, opts, ctxOuter, dl, wk, localVars, lockVars, runVars, probeVars, calcVars>>

\* downloadChunk: GET with the Range header on downloadCtx. It fails on a
\* transport error, a done context or a status other than 206 (an empty
\* range gets no 206).
WorkerGet(i) ==
    /\ wk[i].pc = "get"
    /\ \/ wk' = [wk EXCEPT ![i].pc = "errd"]
       \/ /\ ~InnerDone
          /\ wk[i].first <= wk[i].last
          /\ wk' = [wk EXCEPT ![i].pc = "read"]
    /\ UNCHANGED <<dir, now, srv, opts, ctxOuter, dl, xf, localVars, lockVars, runVars, probeVars, calcVars>>

\* downloadChunk: one resp.Body.Read. A buffer is written at offset and
\* counted; io.EOF ends the chunk; any other error (a done context included)
\* fails it.
WorkerRead(i) ==
    /\ wk[i].pc = "read"
    /\ \/ /\ wk' = [wk EXCEPT ![i].pc = "errd"]
          /\ UNCHANGED xf
       \/ /\ ~InnerDone
          /\ wk[i].offset <= wk[i].last
          /\ wk' = [wk EXCEPT ![i].offset = @ + 1]
          /\ xf' = [xf EXCEPT !.total = @ + 1]
       \/ /\ ~InnerDone
          /\ wk[i].offset > wk[i].last
          /\ wk' = [wk EXCEPT ![i].pc = "ok"]
          /\ UNCHANGED xf
    /\ UNCHANGED <<dir, now, srv, opts, ctxOuter, dl, localVars, lockVars, runVars, probeVars, calcVars>>

\* The worker goroutine after downloadChunk failed: errOnce.Do records the
\* first error ...
WorkerErr(i) ==
    /\ wk[i].pc = "errd"
    /\ xf' = [xf EXCEPT !.derr = errOnceDo(@, "chunk")]
    /\ wk' = [wk EXCEPT ![i].pc = "cancel"]
    /\ UNCHANGED <<dir, now, srv, opts, ctxOuter, dl, localVars, lockVars, runVars, probeVars, calcVars>>

\* ... then cancel() and wg.Done().
WorkerCancel(i) ==
    /\ wk[i].pc = "cancel"
    /\ xf' = [xf EXCEPT !.inner = TRUE]
    /\ wk' = [wk EXCEPT ![i].pc = "exit"]
    /\ UNCHANGED <<dir, now, srv, opts, ctxOuter, dl, localVars, lockVars, runVars, probeVars, calcVars>>

\* wg.Wait returns once every worker is done; downloadParallel returns
\* downloadErr (deferred cancel runs).
ParWait ==
    /\ dl.pc = "par_wait"
    /\ \A i \in Workers : i < opts.conns => wk[i].pc \in {"ok", "exit"}
    /\ dl' = IF xf.derr # "none"
             THEN [dl EXCEPT !.pc = "failed", !.err = xf.derr]
             ELSE [dl EXCEPT !.pc = "rename"]
    /\ xf' = [xf EXCEPT !.inner = TRUE]
    /\ UNCHANGED <<dir, now, srv, opts, ctxOuter, wk, localVars, lockVars, runVars, probeVars, calcVars>>

\* downloadSingle, top of the read loop: select on downloadCtx.Done() with a
\* default; a done context returns the speed error whatever cancelled it.
SingleTop ==
    /\ dl.pc = "single_top"
    /\ IF InnerDone
       THEN /\ dl' = [dl EXCEPT !.pc = "failed", !.err = "speed"]
            /\ xf' = [xf EXCEPT !.inner = TRUE]
       ELSE /\ dl' = [dl EXCEPT !.pc = "single_read"]
            /\ UNCHANGED xf
    /\ UNCHANGED <<dir, now, srv, opts, ctxOuter, wk, localVars, lockVars, runVars, probeVars, calcVars>>

\* downloadSingle: one resp.Body.Read. The request was made on ctx, not on
\* downloadCtx, so only the server or the outer ctx ends a blocked Read.
SingleRead ==
    /\ dl.pc = "single_read"
    /\ \/ /\ dl' = [dl EXCEPT !.pc = "failed", !.err = "read"]
          /\ xf' = [xf EXCEPT !.inner = TRUE]
       \/ /\ ctxOuter = "live"
          /\ xf.sent < BodyLen
          /\ xf' = [xf EXCEPT !.sent = @ + 1, !.total = @ + 1]
          /\ dl' = [dl EXCEPT !.pc = "single_top"]
       \/ /\ ctxOuter = "live"
          /\ xf.sent = BodyLen
          /\ xf' = [xf EXCEPT !.inner = TRUE]
          /\ dl' = [dl EXCEPT !.pc = "rename"]
    /\ UNCHANGED <<dir, now, srv, opts, ctxOuter, wk, localVars, lockVars, runVars, probeVars, calcVars>>

\* Download, err != nil after the transfer: os.Remove(tempPath), return err.
Failed ==
    /\ dl.pc = "failed"
    /\ dir' = DirAfterFailure(dir)
    /\ dl' = [dl EXCEPT !.pc = "returned"]
    /\ UNCHANGED <<readable, pr, as, now, srv, opts, ctxOuter, xf, wk, lockVars, runVars, probeVars, calcVars>>

\* Download, the atomic rename; when os.Rename fails the temp file is removed
\* and the error returned.
Rename ==
    /\ dl.pc = "rename"
    /\ \/ /\ DlTemp \in dir
          /\ dir' = DirAfterRename(dir)
          /\ dl' = [dl EXCEPT !.pc = "returned"]
       \/ /\ dir' = DirAfterFailure(dir)
          /\ dl' = [dl EXCEPT !.pc = "returned", !.err = "rename"]
    /\ UNCHANGED <<readable, pr, as, now, srv, opts, ctxOuter, xf, wk, lockVars, runVars, probeVars, calcVars>>

\* The caller cancels the ctx it handed to Download.
CancelOuter ==
    /\ ctxOuter = "live"
    /\ dl.pc \notin {"idle", "returned"}
    /\ ctxOuter' = "cancelled"
    /\ UNCHANGED <<dir, now, srv, opts, dl, xf, wk, localVars, lockVars, runVars, probeVars, calcVars>>

\* A tick of the clock. The timer of the speed gate is served when it is due:
\* no time passes between a due timer and the gate reading the counter.
Tick ==
    /\ now < MaxTime
    /\ dl.pc \notin {"idle", "returned"}
    /\ ~(xf.gate = "armed" /\ now >= xf.due /\ InTransfer)
    /\ now' = now + 1
    /\ UNCHANGED <<dir, srv, opts, ctxOuter, dl, xf, wk, localVars, lockVars, runVars, probeVars, calcVars>>

\* Download is called on a directory that may hold the final file, a temp
\* file of that name left by a killed run, and another snapshot.
InitDl ==
    /\ ProbeVarsIdle
    /\ CalcVarsIdle
    /\ RunVarsIdle
    /\ readable = TRUE
    /\ pr = PruneIdle
    /\ as = AssessIdle
    /\ LockVarsIdle
    /\ now = 0
    /\ srv \in [ranges : BOOLEAN, clen : 0..MaxLen]
    /\ opts \in [conns : 1..MaxConns, minSpeed : {0, 1, MaxSpeed},
                 delay : 0..MaxDelay, timeout : {MaxTimeout}]
    /\ ctxOuter \in {"live", "cancelled"}
    /\ dir \in {{}, {DlTemp, DlBystander}, {DlDest}}
    /\ dl = [pc |-> "head", err |-> "none", start |-> 0, dir0 |-> dir]
    /\ xf = XferIdle
    /\ wk = WorkersIdle

NextDl ==
    \/ HeadRequest
    \/ StartParallel
    \/ StartSingle
    \/ GateFire
    \/ GateQuit
    \/ \E i \in Workers :
         \/ WorkerGet(i)
         \/ WorkerRead(i)
         \/ WorkerErr(i)
         \/ WorkerCancel(i)
    \/ ParWait
    \/ SingleTop
    \/ SingleRead
    \/ Failed
    \/ Rename
    \/ CancelOuter
    \/ Tick

SpecDl == InitDl /\ [][NextDl]_vars

\* What the Go scheduler and runtime guarantee: the clock advances, a goroutine
\* that can take a step on its own takes it, and a request whose context is
\* done returns. Nothing makes the server answer or send.
WorkerAborts(i) == InnerDone /\ (WorkerGet(i) \/ WorkerRead(i))

FairSpecDl ==
    /\ SpecDl
    /\ WF_vars(Tick)
    /\ WF_vars(GateFire \/ GateQuit)
    /\ WF_vars(StartParallel \/ ParWait \/ SingleTop \/ Failed \/ Rename)
    /\ \A i \in Workers :
         WF_vars(WorkerErr(i) \/ WorkerCancel(i) \/ WorkerAborts(i))
    /\ WF_vars(ctxOuter = "cancelled" /\ (HeadRequest \/ StartSingle \/ SingleRead))

\* -------------------------------------------------------------- keeper.Run
\* What a cluster node can serve: nothing; a full snapshot with an
\* incremental on top of it; an incremental on top of the full snapshot of
\* slot 1; a full snapshot and an incremental of another base; the full
\* snapshot of slot 1 with an incremental on top of it; an incremental on top
\* of the full snapshot of slot 3.
Offerings ==
    <<NoOffer,
      [full |-> 3, ibase |-> 3, islot |-> 4],
      [full |-> 0, ibase |-> 1, islot |-> 4],
      [full |-> 3, ibase |-> 1, islot |-> 4],
      [full |-> 1, ibase |-> 1, islot |-> 4],
      [full |-> 0, ibase |-> 3, islot |-> 4]>>

\* A cluster of two serving nodes (which of the two serves what makes no
\* difference: discovery returns the nodes in any order).
TwoNodes(a, b) ==
    [n \in RemoteNodes |->
        IF n = 1 THEN Offerings[a] ELSE IF n = 2 THEN Offerings[b] ELSE NoOffer]

\* The clusters a cycle runs against: two nodes serving any of the first four
\* offerings.
RunNets == {TwoNodes(ab[1], ab[2]) : ab \in {x \in (1..4) \X (1..4) : x[1] <= x[2]}}

\* Clusters for the order of the downloads: two nodes with pairs, one of
\* them on the full snapshot of slot 1; two fulls, one of them paired; two
\* incrementals on the full snapshot of slot 1; an incremental of that base
\* and a pair; and one node with a full snapshot among three that only have
\* incrementals on top of it.
ClusterNets ==
    {TwoNodes(5, 2), TwoNodes(4, 2), TwoNodes(3, 3), TwoNodes(3, 2),
     [n \in RemoteNodes |-> IF n = 1 THEN Offerings[2] ELSE Offerings[6]]}

\* Snapshot directories a cycle starts from.
RunDirs ==
    {{},
     {FullName(1, "A")},
     {FullName(1, "A"), IncrName(1, 2, "A"), TmpName(FullName(2, "A"))}}

\* Cluster tips getSlot can return, and snapshots.age.local.max_incremental_slots.
RunTips == {3, 5}

RunThreshold == 1

\* SnapshotNode of a node's full snapshot and of its incremental.
FullCandidate(n) ==
    [node |-> n, slot |-> net[n].full, base |-> 0,
     file |-> FullName(net[n].full, "B")]

IncrCandidate(n) ==
    [node |-> n, slot |-> net[n].islot, base |-> net[n].ibase,
     file |-> IncrName(net[n].ibase, net[n].islot, "B")]

\* Sequences without repetition over a set: a round of probes may lose any
\* node (latency, age, time-outs) and sortNodes orders the rest by measured
\* values.
Orderings(S) ==
    {s \in UNION {[1..k -> S] : k \in 0..Cardinality(S)} :
        \A i, j \in DOMAIN s : (i # j) => s[i] # s[j]}

DiscoverNodes(snapshotType) ==
    IF snapshotType = "full"
    THEN Orderings({FullCandidate(n) : n \in {m \in RemoteNodes : net[m].full > 0}})
    ELSE Orderings({IncrCandidate(n) : n \in {m \in RemoteNodes : net[m].islot > 0}})

\* Mutant of MatchesBase: nothing is filtered out.
MatchesBase_All(all, baseSlot) == all

MatchesBase(all, baseSlot) == SelectSeq(all, LAMBDA c : c.base = baseSlot)

DiscoverIncrementalForBase(baseSlot) ==
    {MatchesBase(all, baseSlot) : all \in DiscoverNodes("incremental")}

DiscoverPairedNodes ==
    Orderings({[full |-> FullCandidate(n), incremental |-> IncrCandidate(n)] :
                 n \in {m \in RemoteNodes :
                          /\ net[m].full > 0
                          /\ net[m].islot > 0
                          /\ net[m].ibase = net[m].full}})

\* checkRole: an unreachable local RPC is no error.
checkRole ==
    IF identity = "down" THEN "unknown"
    ELSE IF identity = "active" THEN "active"
    ELSE "passive"

\* Mutant of AfterCheckRole: an unreachable local RPC ends the cycle as well.
AfterCheckRole_AbortUnknown(role) ==
    IF role \in {"active", "unknown"} THEN "returned" ELSE "getSlot"

\* Mutant of AfterCheckRole: an active validator goes on with the cycle.
AfterCheckRole_Continue(role) == "getSlot"

\* Where Run goes once the role is known.
AfterCheckRole(role) == IF role = "active" THEN "returned" ELSE "getSlot"

\* Mutant of AfterAssess: a skip goes on to the cluster node list.
AfterAssess_Continue(mode) == "getNodes"

\* Where Run goes once the mode is known.
AfterAssess(mode) == IF mode = "skip" THEN "returned" ELSE "getNodes"

\* Mutant of ModeAfterIncrementalDiscovery: full mode whatever was found.
ModeAfterIncrementalDiscovery_Always(mode, n) == "full"

\* Run, lines 658-661: no matching incremental means full mode.
ModeAfterIncrementalDiscovery(mode, n) == IF n = 0 THEN "full" ELSE mode

\* Mutant of PairedErr: a failed paired incremental fails the candidate.
PairedErr_OnIncremental(incrOutcome) == incrOutcome = "err"

\* tryPairedFullDownload, line 890: once the full is there the error returned
\* is nil whatever the incremental's Download returned.
PairedErr(incrOutcome) == FALSE

\* Mutant of AfterPairedDone: the full-only discovery runs all the same.
AfterPairedDone_FullOnly == "discoverFull"

\* Run, lines 695 and 733: with pairedDone the full-only discovery, the
\* candidate loop and the follow-up are skipped.
AfterPairedDone == "prune"

\* The context Run hands to tryPairedFullDownload and to the candidate loop,
\* and the one it hands to tryDownloadIncremental.
DownloadCtx == "download"

FollowUpCtx == "root"

\* ctx.Done() of a context: the root context is context.Background(), the
\* download context is cancelled by the monitor.
CtxDone(c) == c = "download" /\ mon.observed

\* Mutant of runFailureHooks: the error is returned without the hooks.
runFailureHooks_None(c) == c

runFailureHooks(c) == [c EXCEPT !.onFailure = @ + 1]

StartDownload(f, c, purpose) ==
    [pc |-> "head", file |-> f, ctx |-> c, purpose |-> purpose]

\* The calls of downloader.Download the cycle has made: what for, the index
\* of the candidate in its list, the file asked for and what was returned.
Attempt(purpose, i, f) ==
    [purpose |-> purpose, i |-> i, file |-> f, outcome |-> "pending"]

WithOutcome(attempts, outcome) ==
    [attempts EXCEPT ![Len(attempts)].outcome = outcome]

\* Mutant of SkipPaired: only a full older than the local one is skipped.
SkipPaired_OlderOnly(localFullSlot, fullSlot) ==
    localFullSlot > 0 /\ fullSlot < localFullSlot

\* tryPairedFullDownload: localFullSlot > 0 && candidate.Full.Slot <= localFullSlot
SkipPaired(localFullSlot, fullSlot) ==
    localFullSlot > 0 /\ fullSlot <= localFullSlot

Returned(r) == [r EXCEPT !.pc = "returned", !.ret = "nil"]

ReturnedErr(r, cause) == [r EXCEPT !.pc = "returned", !.ret = "err", !.err = cause]

\* The validator this keeper runs next to takes over the active identity.
Failover ==
    /\ run.pc \notin {"idle", "returned"}
    /\ identity # "active"
    /\ identity' = "active"
    /\ UNCHANGED <<net, run, mon, rdl, calls, localVars, lockVars, dlVars, probeVars, calcVars>>

\* Run, step 1.
CheckRole ==
    /\ run.pc = "checkRole"
    /\ calls' = [calls EXCEPT !.getIdentity = @ + 1]
    /\ LET next == AfterCheckRole(checkRole)
       IN  run' = [run EXCEPT !.role = checkRole, !.pc = next,
                       !.ret = IF next = "returned" THEN "nil" ELSE @]
    /\ UNCHANGED <<identity, net, mon, rdl, localVars, lockVars, dlVars, probeVars, calcVars>>

\* Run, step 2: getSlot on the cluster RPC; its error is returned as it is.
GetSlot ==
    /\ run.pc = "getSlot"
    /\ calls' = [calls EXCEPT !.getSlot = @ + 1]
    /\ \/ run' = ReturnedErr(run, "getSlot")
       \/ \E t \in RunTips : run' = [run EXCEPT !.currentSlot = t, !.pc = "assess"]
    /\ UNCHANGED <<identity, net, mon, rdl, localVars, lockVars, dlVars, probeVars, calcVars>>

RunAssess ==
    /\ run.pc = "assess"
    /\ LET r    == assessFreshness(dir, readable, run.currentSlot, RunThreshold)
           next == AfterAssess(r.mode)
       IN  run' = [run EXCEPT !.mode = r.mode, !.localFullSlot = r.base,
                       !.pc = next,
                       !.ret = IF next = "returned" THEN "nil" ELSE @]
    /\ UNCHANGED <<identity, net, mon, rdl, calls, localVars, lockVars, dlVars, probeVars, calcVars>>

\* Run, step 3: getClusterNodes; on its error the failure hooks run.
GetClusterNodes ==
    /\ run.pc = "getNodes"
    /\ \/ /\ calls' = runFailureHooks([calls EXCEPT !.getClusterNodes = @ + 1])
          /\ run' = ReturnedErr(run, "getClusterNodes")
          /\ UNCHANGED mon
       \/ /\ calls' = [calls EXCEPT !.getClusterNodes = @ + 1]
          /\ IF run.mode = "incremental"
             THEN run' = [run EXCEPT !.pc = "discoverInc"] /\ UNCHANGED mon
             ELSE /\ run' = [run EXCEPT !.pc = "paired"]
                  /\ mon' = [mon EXCEPT !.started = TRUE]
    /\ UNCHANGED <<identity, net, rdl, localVars, lockVars, dlVars, probeVars, calcVars>>

\* mode incremental: candidates for the local full's slot, full mode when
\* there is none; then downloadCtx is made and the monitor started.
DiscoverIncremental ==
    /\ run.pc = "discoverInc"
    /\ calls' = [calls EXCEPT !.probe = @ + 1]
    /\ \E cs \in DiscoverIncrementalForBase(run.localFullSlot) :
         run' = [run EXCEPT
                   !.mode = ModeAfterIncrementalDiscovery(@, Len(cs)),
                   !.candidates = cs,
                   !.i = IF Len(cs) = 0 THEN @ ELSE 1,
                   !.pc = IF Len(cs) = 0 THEN "paired" ELSE "loop"]
    /\ mon' = [mon EXCEPT !.started = TRUE]
    /\ UNCHANGED <<identity, net, rdl, localVars, lockVars, dlVars, probeVars, calcVars>>

\* monitorIdentity: a tick on which getIdentity answers the active pubkey
\* cancels downloadCtx and ends the goroutine. (A tick with another answer,
\* or with an error, changes nothing.) The goroutine ends with Run.
MonitorTick ==
    /\ mon.started
    /\ ~mon.observed
    /\ run.pc # "returned"
    /\ identity = "active"
    /\ mon' = [mon EXCEPT !.observed = TRUE]
    /\ UNCHANGED <<identity, net, run, rdl, calls, localVars, lockVars, dlVars, probeVars, calcVars>>

\* tryPairedFullDownload: discovery.
DiscoverPaired ==
    /\ run.pc = "paired"
    /\ calls' = [calls EXCEPT !.probe = @ + 1]
    /\ \E ps \in DiscoverPairedNodes :
         run' = IF Len(ps) = 0
                THEN [run EXCEPT !.pc = "discoverFull"]
                ELSE [run EXCEPT !.paired = ps, !.i = 1, !.pc = "pairedLoop"]
    /\ UNCHANGED <<identity, net, mon, rdl, localVars, lockVars, dlVars, probeVars, calcVars>>

\* tryPairedFullDownload: the head of the loop over the paired candidates.
PairedNext ==
    /\ run.pc = "pairedLoop"
    /\ IF run.i > Len(run.paired)
       THEN /\ run' = [run EXCEPT !.pc = "discoverFull"]
            /\ UNCHANGED <<rdl, calls>>
       ELSE LET candidate == run.paired[run.i]
            IN  IF SkipPaired(run.localFullSlot, candidate.full.slot)
                THEN /\ run' = [run EXCEPT !.i = @ + 1]
                     /\ UNCHANGED <<rdl, calls>>
                ELSE /\ rdl' = StartDownload(candidate.full.file, DownloadCtx,
                                             "pairedFull")
                     /\ calls' = [calls EXCEPT !.download = @ + 1]
                     /\ run' = [run EXCEPT
                                  !.attempts = Append(@, Attempt("pairedFull",
                                                   run.i, candidate.full.file)),
                                  !.pc = "pairedFullWait"]
    /\ UNCHANGED <<identity, net, mon, localVars, lockVars, dlVars, probeVars, calcVars>>

\* tryPairedFullDownload: the full's Download has returned.
PairedFullReturned ==
    /\ run.pc = "pairedFullWait"
    /\ rdl.pc \in {"ok", "err"}
    /\ IF rdl.pc = "err"
       THEN /\ run' = [run EXCEPT !.attempts = WithOutcome(@, "err"),
                                   !.i = @ + 1, !.pc = "pairedLoop"]
            /\ rdl' = NoDownload
            /\ UNCHANGED calls
       ELSE /\ rdl' = StartDownload(run.paired[run.i].incremental.file,
                                    DownloadCtx, "pairedIncr")
            /\ calls' = [calls EXCEPT !.download = @ + 1]
            /\ run' = [run EXCEPT
                         !.attempts = Append(WithOutcome(@, "ok"),
                                          Attempt("pairedIncr", run.i,
                                             run.paired[run.i].incremental.file)),
                         !.result = "set", !.pc = "pairedIncrWait"]
    /\ UNCHANGED <<identity, net, mon, localVars, lockVars, dlVars, probeVars, calcVars>>

\* tryPairedFullDownload: the incremental's Download has returned; with or
\* without it the pair counts as done.
PairedIncrReturned ==
    /\ run.pc = "pairedIncrWait"
    /\ rdl.pc \in {"ok", "err"}
    /\ rdl' = NoDownload
    /\ run' = IF PairedErr(rdl.pc)
              THEN [run EXCEPT !.attempts = WithOutcome(@, rdl.pc),
                         !.pairedIncr = rdl.pc, !.result = "nil",
                         !.i = @ + 1, !.pc = "pairedLoop"]
              ELSE [run EXCEPT !.attempts = WithOutcome(@, rdl.pc),
                         !.pairedIncr = rdl.pc, !.pairedDone = TRUE,
                         !.selectedSlot = run.paired[run.i].full.slot,
                         !.pc = AfterPairedDone]
    /\ UNCHANGED <<identity, net, mon, calls, localVars, lockVars, dlVars, probeVars, calcVars>>

\* Full-only discovery after the paired attempt failed; no candidate at all
\* runs the failure hooks.
DiscoverFull ==
    /\ run.pc = "discoverFull"
    /\ \E cs \in DiscoverNodes("full") :
         IF Len(cs) = 0
         THEN /\ run' = ReturnedErr(run, "noCandidates")
              /\ calls' = runFailureHooks([calls EXCEPT !.probe = @ + 1,
                                                        !.probeFull = @ + 1])
         ELSE /\ run' = [run EXCEPT !.candidates = cs, !.i = 1, !.pc = "loop"]
              /\ calls' = [calls EXCEPT !.probe = @ + 1, !.probeFull = @ + 1]
    /\ UNCHANGED <<identity, net, mon, rdl, localVars, lockVars, dlVars, probeVars, calcVars>>

\* Mutant of NextCandidate: a failed candidate is tried again.
NextCandidate_Retry(i) == i

\* Run, the candidate loop: continue goes on to the next element of the range.
NextCandidate(i) == i + 1

\* The head of the loop over the candidates; all failed runs the failure hooks.
LoopNext ==
    /\ run.pc = "loop"
    /\ IF run.i > Len(run.candidates)
       THEN /\ run' = ReturnedErr(run, "allFailed")
            /\ calls' = runFailureHooks(calls)
            /\ UNCHANGED rdl
       ELSE /\ rdl' = StartDownload(run.candidates[run.i].file, DownloadCtx,
                                    run.mode)
            /\ calls' = [calls EXCEPT !.download = @ + 1]
            /\ run' = [run EXCEPT
                         !.attempts = Append(@, Attempt(run.mode, run.i,
                                                 run.candidates[run.i].file)),
                         !.pc = "loopWait"]
    /\ UNCHANGED <<identity, net, mon, localVars, lockVars, dlVars, probeVars, calcVars>>

\* A candidate's Download has returned: the next one on an error, else on to
\* the follow-up (a full that was not paired) or to the pruning.
LoopReturned ==
    /\ run.pc = "loopWait"
    /\ rdl.pc \in {"ok", "err"}
    /\ rdl' = NoDownload
    /\ run' = IF rdl.pc = "err"
              THEN [run EXCEPT !.attempts = WithOutcome(@, "err"),
                         !.i = NextCandidate(@), !.pc = "loop"]
              ELSE [run EXCEPT !.attempts = WithOutcome(@, "ok"),
                         !.result = "set",
                         !.selectedSlot = run.candidates[run.i].slot,
                         !.pc = IF run.mode = "full" THEN "followDiscover"
                                ELSE "prune"]
    /\ UNCHANGED <<identity, net, mon, calls, localVars, lockVars, dlVars, probeVars, calcVars>>

\* tryDownloadIncremental: discovery for the slot of the full just fetched.
FollowDiscover ==
    /\ run.pc = "followDiscover"
    /\ calls' = [calls EXCEPT !.probe = @ + 1]
    /\ \E cs \in DiscoverIncrementalForBase(run.selectedSlot) :
         run' = IF Len(cs) = 0
                THEN [run EXCEPT !.followed = TRUE, !.pc = "prune"]
                ELSE [run EXCEPT !.followed = TRUE, !.candidates = cs,
                                 !.i = 1, !.pc = "followLoop"]
    /\ UNCHANGED <<identity, net, mon, rdl, localVars, lockVars, dlVars, probeVars, calcVars>>

\* Mutant of maxCandidates: every candidate is tried.
maxCandidates_All(candidates) == Len(candidates)

\* tryDownloadIncremental: at most three candidates are tried.
maxCandidates(candidates) == IF 3 > Len(candidates) THEN Len(candidates) ELSE 3

FollowNext ==
    /\ run.pc = "followLoop"
    /\ IF run.i > maxCandidates(run.candidates)
       THEN /\ run' = [run EXCEPT !.pc = "prune"]
            /\ UNCHANGED <<rdl, calls>>
       ELSE /\ rdl' = StartDownload(run.candidates[run.i].file, FollowUpCtx,
                                    "followup")
            /\ calls' = [calls EXCEPT !.download = @ + 1]
            /\ run' = [run EXCEPT
                         !.attempts = Append(@, Attempt("followup", run.i,
                                                 run.candidates[run.i].file)),
                         !.pc = "followWait"]
    /\ UNCHANGED <<identity, net, mon, localVars, lockVars, dlVars, probeVars, calcVars>>

FollowReturned ==
    /\ run.pc = "followWait"
    /\ rdl.pc \in {"ok", "err"}
    /\ rdl' = NoDownload
    /\ run' = IF rdl.pc = "err"
              THEN [run EXCEPT !.attempts = WithOutcome(@, "err"),
                         !.i = @ + 1, !.pc = "followLoop"]
              ELSE [run EXCEPT !.attempts = WithOutcome(@, "ok"),
                         !.pc = "prune"]
    /\ UNCHANGED <<identity, net, mon, calls, localVars, lockVars, dlVars, probeVars, calcVars>>

\* Run, step 6: Prune; its error is logged only.
RunPrune ==
    /\ run.pc = "prune"
    /\ calls' = [calls EXCEPT !.prune = @ + 1]
    /\ IF readable THEN dir' \in PruneResults(dir) ELSE dir' = dir
    /\ run' = [run EXCEPT !.pruneErr = ~readable, !.pc = "hooks"]
    /\ UNCHANGED <<identity, net, mon, rdl, readable, pr, as, lockVars, dlVars, probeVars, calcVars>>

\* Mutant of RetAfterSuccessHooks: a failing hook fails the cycle.
RetAfterSuccessHooks_Surfaced(hookErr) == IF hookErr THEN "err" ELSE "nil"

\* Run, lines 765-769: the error of hooks.RunHooks is logged, nil is returned.
RetAfterSuccessHooks(hookErr) == "nil"

\* Run, step 7: the success hooks (which may fail), then return nil.
SuccessHooks ==
    /\ run.pc = "hooks"
    /\ calls' = [calls EXCEPT !.onSuccess = @ + 1]
    /\ \E failed \in BOOLEAN :
         run' = [run EXCEPT !.pc = "returned", !.hookErr = failed,
                           !.ret = RetAfterSuccessHooks(failed)]
    /\ UNCHANGED <<identity, net, mon, rdl, localVars, lockVars, dlVars, probeVars, calcVars>>

\* Download as Run sees it. The HEAD request (and the GET of the
\* single-stream path) fail on a cancelled context and may fail otherwise;
\* past them the temp file exists.
DownloadHead ==
    /\ rdl.pc = "head"
    /\ \/ /\ rdl' = [rdl EXCEPT !.pc = "err"]
          /\ UNCHANGED <<dir, calls>>
       \/ /\ ~CtxDone(rdl.ctx)
          /\ rdl' = [rdl EXCEPT !.pc = "xfer"]
          /\ dir' = dir \cup {TmpName(rdl.file)}
          /\ calls' = [calls EXCEPT !.started = @ + 1]
    /\ UNCHANGED <<identity, net, run, mon, readable, pr, as, lockVars, dlVars, probeVars, calcVars>>

\* The body has arrived in full; no request is left for a cancellation to
\* interrupt.
DownloadTransferred ==
    /\ rdl.pc = "xfer"
    /\ ~CtxDone(rdl.ctx)
    /\ rdl' = [rdl EXCEPT !.pc = "rename"]
    /\ UNCHANGED <<identity, net, run, mon, calls, localVars, lockVars, dlVars, probeVars, calcVars>>

\* The transfer fails (cancelled context, speed gate, network): the temp file
\* is removed and the error returned.
DownloadFails ==
    /\ rdl.pc = "xfer"
    /\ rdl' = [rdl EXCEPT !.pc = "err"]
    /\ dir' = dir \ {TmpName(rdl.file)}
    /\ UNCHANGED <<identity, net, run, mon, calls, readable, pr, as, lockVars, dlVars, probeVars, calcVars>>

\* os.Rename of the temp file onto the destination, or its failure.
DownloadRename ==
    /\ rdl.pc = "rename"
    /\ \/ /\ rdl' = [rdl EXCEPT !.pc = "ok"]
          /\ dir' = (dir \ {TmpName(rdl.file)}) \cup {rdl.file}
          /\ calls' = [calls EXCEPT
                         !.finalized = @ + 1,
                         !.fullOk = IF rdl.purpose \in {"pairedFull", "full"}
                                    THEN @ + 1 ELSE @]
       \/ /\ rdl' = [rdl EXCEPT !.pc = "err"]
          /\ dir' = dir \ {TmpName(rdl.file)}
          /\ UNCHANGED calls
    /\ UNCHANGED <<identity, net, run, mon, readable, pr, as, lockVars, dlVars, probeVars, calcVars>>

InitRun ==
    /\ ProbeVarsIdle
    /\ CalcVarsIdle
    /\ dir \in RunDirs
    /\ readable \in BOOLEAN
    /\ pr = PruneIdle
    /\ as = AssessIdle
    /\ LockVarsIdle
    /\ DlVarsIdle
    /\ identity \in {"active", "passive", "down"}
    /\ net \in RunNets
    /\ run = [RunLocals EXCEPT !.pc = "checkRole", !.dir0 = dir]
    /\ mon = [started |-> FALSE, observed |-> FALSE]
    /\ rdl = NoDownload
    /\ calls = NoCalls

NextRun ==
    \/ Failover
    \/ CheckRole
    \/ GetSlot
    \/ RunAssess
    \/ GetClusterNodes
    \/ DiscoverIncremental
    \/ MonitorTick
    \/ DiscoverPaired
    \/ PairedNext
    \/ PairedFullReturned
    \/ PairedIncrReturned
    \/ DiscoverFull
    \/ LoopNext
    \/ LoopReturned
    \/ FollowDiscover
    \/ FollowNext
    \/ FollowReturned
    \/ RunPrune
    \/ SuccessHooks
    \/ DownloadHead
    \/ DownloadTransferred
    \/ DownloadFails
    \/ DownloadRename

SpecRun == InitRun /\ [][NextRun]_vars

\* A cycle of a validator that is passive when it starts, against the
\* clusters of ClusterNets.
InitRunCluster ==
    /\ ProbeVarsIdle
    /\ CalcVarsIdle
    /\ dir \in RunDirs
    /\ readable \in BOOLEAN
    /\ pr = PruneIdle
    /\ as = AssessIdle
    /\ LockVarsIdle
    /\ DlVarsIdle
    /\ identity = "passive"
    /\ net \in ClusterNets
    /\ run = [RunLocals EXCEPT !.pc = "checkRole", !.dir0 = dir]
    /\ mon = [started |-> FALSE, observed |-> FALSE]
    /\ rdl = NoDownload
    /\ calls = NoCalls

SpecRunCluster == InitRunCluster /\ [][NextRun]_vars

\* Directories whose full snapshot is newer than a full some node serves,
\* and clusters with such a node (alone, beside a node with a newer pair, and
\* twice).
StaleDirs ==
    {{FullName(2, "A")},
     {FullName(2, "A"), IncrName(2, 3, "A")}}

StaleNets == {TwoNodes(5, 1), TwoNodes(5, 2), TwoNodes(5, 5)}

\* A cycle of a passive validator whose local full is newer than a full
\* still within snapshots.age.remote.max_slots on some node.
InitRunStale ==
    /\ ProbeVarsIdle
    /\ CalcVarsIdle
    /\ dir \in StaleDirs
    /\ readable \in BOOLEAN
    /\ pr = PruneIdle
    /\ as = AssessIdle
    /\ LockVarsIdle
    /\ DlVarsIdle
    /\ identity = "passive"
    /\ net \in StaleNets
    /\ run = [RunLocals EXCEPT !.pc = "checkRole", !.dir0 = dir]
    /\ mon = [started |-> FALSE, observed |-> FALSE]
    /\ rdl = NoDownload
    /\ calls = NoCalls

SpecRunStale == InitRunStale /\ [][NextRun]_vars

\* ------------------------------------------ probeNodes / probePairedNodes
\* Mutant of SemHasRoom: the semaphore never blocks.
SemHasRoom_Always(sem, c) == TRUE

\* sem = make(chan struct{}, opts.ProbeConcurrency): a send completes while
\* fewer than ProbeConcurrency values are buffered.
SemHasRoom(sem, c) == sem < c

\* The goroutine of address a: select between a semaphore slot and
\* probeCtx.Done(). With both ready either case may be taken.
ProbeAcquire(a) ==
    /\ pg[a].pc = "start"
    /\ SemHasRoom(pb.sem, pb.c)
    /\ pb' = [pb EXCEPT !.sem = @ + 1]
    /\ pg' = [pg EXCEPT ![a].pc = "probing",
                        ![a].late = pb.k > 0 /\ pb.suitable >= pb.k,
                        ![a].afterCancel = pb.done]
    /\ UNCHANGED <<localVars, lockVars, dlVars, runVars, calcVars>>

ProbeQuit(a) ==
    /\ pg[a].pc = "start"
    /\ pb.done
    /\ pg' = [pg EXCEPT ![a].pc = "done"]
    /\ UNCHANGED <<pb, localVars, lockVars, dlVars, runVars, calcVars>>

\* Mutant of probeNode: the request ignores its context.
probeNode_IgnoreCtx(suitable, ctxDone) == IF suitable THEN "ok" ELSE "rejected"

\* What probeNode returns for a node: a request on a cancelled probeCtx
\* fails; otherwise a suitable node is accepted and any other is rejected.
probeNode(suitable, ctxDone) == IF suitable /\ ~ctxDone THEN "ok" ELSE "rejected"

\* probePairedNode: the full's probe, then (when that passed) the
\* incremental's; probeNode, the only probe.
ProbeReturns(a) ==
    /\ pg[a].pc \in {"probing", "probing2"}
    /\ LET r == probeNode(pg[a].suitable, pb.done)
       IN  pg' = [pg EXCEPT ![a].pc =
                     IF r = "rejected" THEN "rejected"
                     ELSE IF pb.paired /\ pg[a].pc = "probing" THEN "probing2"
                     ELSE "ok"]
    /\ UNCHANGED <<pb, localVars, lockVars, dlVars, runVars, calcVars>>

\* n := suitable.Add(1)
ProbeCount(a) ==
    /\ pg[a].pc = "ok"
    /\ pb' = [pb EXCEPT !.suitable = @ + 1]
    /\ pg' = [pg EXCEPT ![a].pc = "counted", ![a].n = pb.suitable + 1]
    /\ UNCHANGED <<localVars, lockVars, dlVars, runVars, calcVars>>

\* mu.Lock(); results = append(results, *node); mu.Unlock()
ProbeAppend(a) ==
    /\ pg[a].pc = "counted"
    /\ pb' = [pb EXCEPT !.results = @ \cup {a}]
    /\ pg' = [pg EXCEPT ![a].pc = "appended"]
    /\ UNCHANGED <<localVars, lockVars, dlVars, runVars, calcVars>>

\* Mutant of EarlyStop: one result short of MinSuitable is enough.
EarlyStop_OneShort(k, n) == k > 0 /\ n >= k - 1

\* opts.MinSuitable > 0 && int(n) >= opts.MinSuitable
EarlyStop(k, n) == k > 0 /\ n >= k

\* The rest of an accepting goroutine: earlyOnce.Do (log, probeCancel) when
\* the minimum is reached, then the deferred release of the slot.
ProbeFinish(a) ==
    /\ pg[a].pc = "appended"
    /\ pb' = IF EarlyStop(pb.k, pg[a].n)
             THEN [pb EXCEPT !.once = TRUE, !.done = TRUE, !.sem = @ - 1]
             ELSE [pb EXCEPT !.sem = @ - 1]
    /\ pg' = [pg EXCEPT ![a].pc = "done"]
    /\ UNCHANGED <<localVars, lockVars, dlVars, runVars, calcVars>>

\* A rejected probe is recorded and the slot released.
ProbeRejected(a) ==
    /\ pg[a].pc = "rejected"
    /\ pb' = [pb EXCEPT !.sem = @ - 1]
    /\ pg' = [pg EXCEPT ![a].pc = "done"]
    /\ UNCHANGED <<localVars, lockVars, dlVars, runVars, calcVars>>

\* The caller's ctx is cancelled; probeCtx, its child, is done with it.
ProbeOuterCancel ==
    /\ ~pb.returned
    /\ ~pb.outer
    /\ pb' = [pb EXCEPT !.outer = TRUE, !.done = TRUE]
    /\ UNCHANGED <<pg, localVars, lockVars, dlVars, runVars, calcVars>>

\* wg.Wait(); probeCancel(); return results
ProbeWait ==
    /\ ~pb.returned
    /\ \A a \in ProbeAddrs : pg[a].pc = "done"
    /\ pb' = [pb EXCEPT !.returned = TRUE, !.done = TRUE]
    /\ UNCHANGED <<pg, localVars, lockVars, dlVars, runVars, calcVars>>

\* A round of probes over the addresses, of which any number may be suitable
\* (the goroutines are alike and run in any order, so the suitable ones are
\* taken to be the first ones).
InitProbe ==
    /\ CalcVarsIdle
    /\ LocalIdle
    /\ LockVarsIdle
    /\ DlVarsIdle
    /\ RunVarsIdle
    /\ \E k \in 0..MaxMinSuitable, c \in 1..MaxProbeConc, paired \in BOOLEAN :
         pb = [ProbeIdle EXCEPT !.k = k, !.c = c, !.paired = paired,
                                !.returned = FALSE]
    /\ \E S \in {1..j : j \in 0..MaxAddrs} :
         pg = [a \in ProbeAddrs |->
                 [pc |-> "start", suitable |-> a \in S, n |-> 0,
                  late |-> FALSE, afterCancel |-> FALSE]]

NextProbe ==
    \/ \E a \in ProbeAddrs :
         \/ ProbeAcquire(a)
         \/ ProbeQuit(a)
         \/ ProbeReturns(a)
         \/ ProbeCount(a)
         \/ ProbeAppend(a)
         \/ ProbeFinish(a)
         \/ ProbeRejected(a)
    \/ ProbeOuterCancel
    \/ ProbeWait

SpecProbe == InitProbe /\ [][NextProbe]_vars

\* A round of probes under any snapshots.discovery.probe.concurrency that
\* Discovery.Validate lets through: it checks sort_order and max_latency
\* only, so 0 (an unbuffered sem) is among them.
InitProbeAny ==
    /\ CalcVarsIdle
    /\ LocalIdle
    /\ LockVarsIdle
    /\ DlVarsIdle
    /\ RunVarsIdle
    /\ \E k \in 0..MaxMinSuitable, c \in 0..MaxProbeConc, paired \in BOOLEAN :
         pb = [ProbeIdle EXCEPT !.k = k, !.c = c, !.paired = paired,
                                !.returned = FALSE]
    /\ \E S \in {1..j : j \in 0..MaxAddrs} :
         pg = [a \in ProbeAddrs |->
                 [pc |-> "start", suitable |-> a \in S, n |-> 0,
                  late |-> FALSE, afterCancel |-> FALSE]]

\* What the Go scheduler and the HTTP client give: a goroutine that can take
\* a step takes it, a HEAD request completes or times out (client.Timeout),
\* and wg.Wait returns once the counter is zero. Nothing makes the caller
\* cancel its ctx.
FairSpecProbeAny ==
    /\ InitProbeAny
    /\ [][NextProbe]_vars
    /\ \A a \in ProbeAddrs :
         WF_vars(ProbeAcquire(a) \/ ProbeQuit(a) \/ ProbeReturns(a)
                 \/ ProbeCount(a) \/ ProbeAppend(a) \/ ProbeFinish(a)
                 \/ ProbeRejected(a))
    /\ WF_vars(ProbeWait)

\* --------------------------------------------- DiscoverIncrementalForBase
\* The loop over what DiscoverNodes returned: the nodes whose BaseSlot is the
\* requested one are kept.
FilterForBase ==
    /\ pb.returned
    /\ ~pb.filtered
    /\ pb' = [pb EXCEPT !.filtered = TRUE, !.matching = pb.results \cap pb.match]
    /\ UNCHANGED <<pg, localVars, lockVars, dlVars, runVars, calcVars>>

\* DiscoverIncrementalForBase over the addresses: a round of probeNodes for
\* incrementals, where some of the suitable nodes (the last ones, the
\* goroutines being alike) serve an incremental of the requested base slot.
InitProbeBase ==
    /\ CalcVarsIdle
    /\ LocalIdle
    /\ LockVarsIdle
    /\ DlVarsIdle
    /\ RunVarsIdle
    /\ \E j \in 0..MaxAddrs :
         /\ \E k \in 0..MaxMinSuitable, c \in 1..MaxProbeConc, m \in 1..(j + 1) :
              pb = [ProbeIdle EXCEPT !.k = k, !.c = c, !.paired = FALSE,
                                     !.returned = FALSE, !.match = m..j]
         /\ pg = [a \in ProbeAddrs |->
                   [pc |-> "start", suitable |-> a \in 1..j, n |-> 0,
                    late |-> FALSE, afterCancel |-> FALSE]]

NextProbeBase ==
    \/ NextProbe
    \/ FilterForBase

SpecProbeBase == InitProbeBase /\ [][NextProbeBase]_vars

\* ------------------------------------ downloadParallel (the chunk ranges)
\* One turn of the launch loop: the range of chunk i is computed and handed
\* to its goroutine.
LaunchChunk ==
    /\ ck.i < ck.conns
    /\ ck' = [ck EXCEPT !.i = @ + 1,
                        !.ranges = Append(@, ChunkRange(ck.clen, ck.conns, ck.i))]
    /\ UNCHANGED <<localVars, lockVars, dlVars, runVars, probeVars, sr, nb, pp, cw>>

\* downloadParallel is entered with the Content-Length of the HEAD response
\* and snapshots.download.connections.
InitChunks ==
    /\ LocalIdle
    /\ LockVarsIdle
    /\ DlVarsIdle
    /\ RunVarsIdle
    /\ ProbeVarsIdle
    /\ ck \in [clen : 1..MaxContentLength, conns : 1..MaxChunkConns,
                i : {0}, ranges : {<<>>}]
    /\ sr = SortIdle
    /\ nb = BoundaryIdle
    /\ pp = PairedIdle
    /\ cw = WritesIdle

NextChunks == LaunchChunk

SpecChunks == InitChunks /\ [][NextChunks]_vars

\* ----------------------------------------------------- discovery.sortNodes
\* The less function handed to sort.Slice.
sortLess(a, b, sortOrder) ==
    IF sortOrder = "slot_age" THEN a.slotAge < b.slotAge
    ELSE a.latency < b.latency

IndexPermutations(n) ==
    {p \in [1..n -> 1..n] : \A i, j \in 1..n : (i # j) => p[i] # p[j]}

\* sort.Slice(nodes, less): the slice is reordered so that no element is
\* less than one before it. sort.Slice is not a stable sort ("equal elements
\* may be reversed from their original order"; sort.SliceStable is the stable
\* one), so every such reordering is an outcome.
sortNodes(nodes, sortOrder) ==
    {out \in {[i \in 1..Len(nodes) |-> nodes[p[i]]] :
                p \in IndexPermutations(Len(nodes))} :
        \A i, j \in 1..Len(out) :
            (i < j) => ~sortLess(out[j], out[i], sortOrder)}

SortNodes ==
    /\ sr.pc = "call"
    /\ \E out \in sortNodes(sr.nodes, sr.order) :
         sr' = [sr EXCEPT !.out = out, !.pc = "done"]
    /\ UNCHANGED <<localVars, lockVars, dlVars, runVars, probeVars, ck, nb, pp, cw>>

\* The probe results as probeNodes gathered them.
ProbeResults == [latency : 0..MaxKey, slotAge : 0..MaxKey]

InitSort ==
    /\ LocalIdle
    /\ LockVarsIdle
    /\ DlVarsIdle
    /\ RunVarsIdle
    /\ ProbeVarsIdle
    /\ ck = ChunksIdle
    /\ nb = BoundaryIdle
    /\ pp = PairedIdle
    /\ cw = WritesIdle
    /\ \E order \in {"latency", "slot_age"},
          nodes \in UNION {[1..n -> ProbeResults] : n \in 0..MaxResults} :
         sr = [order |-> order, nodes |-> nodes, out |-> <<>>, pc |-> "call"]

NextSort == SortNodes

SpecSort == InitSort /\ [][NextSort]_vars

\* ------------------------------------------ manager.calculateNextBoundary
\* time.Date(now.Year(), now.Month(), now.Day(), 0, 0, 0, 0, now.Location()),
\* for now = t in a location whose days all have DayLen ticks.
midnightOf(t) == t - (t % DayLen)

\* Mutant of calculateNextBoundary: one interval from now, not aligned.
calculateNextBoundary_FromNow(t, interval) ==
    IF interval <= 0 THEN t ELSE t + interval

calculateNextBoundary(t, interval) ==
    IF interval <= 0 THEN t
    ELSE LET midnight  == midnightOf(t)
             elapsed   == t - midnight
             intervals == elapsed \div interval
             next      == midnight + (intervals + 1) * interval
         IN  IF next <= t THEN next + interval ELSE next

CalculateNextBoundary ==
    /\ nb.pc = "call"
    /\ nb' = [nb EXCEPT !.next = calculateNextBoundary(nb.now, nb.interval),
                        !.pc = "done"]
    /\ UNCHANGED <<localVars, lockVars, dlVars, runVars, probeVars, ck, sr, pp, cw>>

InitBoundary ==
    /\ LocalIdle
    /\ LockVarsIdle
    /\ DlVarsIdle
    /\ RunVarsIdle
    /\ ProbeVarsIdle
    /\ ck = ChunksIdle
    /\ sr = SortIdle
    /\ pp = PairedIdle
    /\ cw = WritesIdle
    /\ nb \in [now : 0..MaxNow, interval : 0..MaxInterval, next : {0},
                pc : {"call"}]

NextBoundary == CalculateNextBoundary

SpecBoundary == InitBoundary /\ [][NextBoundary]_vars

\* ------------------------------------- discovery.probeNode / probePairedNode
\* The regular expressions of discovery.go are not anchored: a name matches
\* when the pattern occurs in it, whatever follows the extension. A name
\* without the "-<slot>-<hash>" part (hash "") does not match.
\*   fullSnapshotRe: snapshot-(\d+)-[A-Za-z0-9]+\.tar\.(zst|bz2|gz)
discoveryFullSnapshotRe(f) ==
    /\ f.stem = "snapshot"
    /\ f.hash # ""
    /\ f.ext \in CompressedExts

\*   incrementalSnapshotRe:
\*     incremental-snapshot-(\d+)-(\d+)-[A-Za-z0-9]+\.tar\.(zst|bz2|gz)
discoveryIncrementalSnapshotRe(f) ==
    /\ f.stem = "incremental-snapshot"
    /\ f.hash # ""
    /\ f.ext \in CompressedExts

\* parseSnapshotFilename: the numeric groups become BaseSlot and Slot as they
\* are; a full node's BaseSlot keeps its zero value.
parseSnapshotFilename(filename, snapshotType) ==
    IF snapshotType = "incremental"
    THEN IF discoveryIncrementalSnapshotRe(filename)
         THEN [ok |-> TRUE, type |-> "incremental", slot |-> filename.slot,
               base |-> filename.base]
         ELSE [ok |-> FALSE, reason |-> "parseFail"]
    ELSE IF discoveryFullSnapshotRe(filename)
         THEN [ok |-> TRUE, type |-> "full", slot |-> filename.slot, base |-> 0]
         ELSE [ok |-> FALSE, reason |-> "parseFail"]

\* The address that is probed, and another host a redirect may name.
ProbedAddr == "addr"

Hosts == {ProbedAddr, "elsewhere"}

\* The last path component of the endpoint: snapshot.tar.bz2 or
\* incremental-snapshot.tar.bz2.
EndpointName(snapshotType) ==
    [stem |-> IF snapshotType = "full" THEN "snapshot"
              ELSE "incremental-snapshot",
     base |-> 0, slot |-> 0, hash |-> "", ext |-> "bz2", suf |-> "",
     isDir |-> FALSE]

\* Mutant of AgeExceeds: no snapshot is too old.
AgeExceeds_Never(slotAge, maxAge) == FALSE

\* probeNode: opts.MaxSnapshotAgeSlots > 0 && slotAge > MaxSnapshotAgeSlots.
AgeExceeds(slotAge, maxAge) == maxAge > 0 /\ slotAge > maxAge

\* probeNode on the answer to its HEAD request.
probeNodeOn(answer, currentSlot, snapshotType, maxLatency, maxAge) ==
    IF answer.err THEN [ok |-> FALSE, reason |-> "httpError"]
    ELSE IF answer.latency > maxLatency THEN [ok |-> FALSE, reason |-> "latency"]
    ELSE IF answer.status \notin {"redirect", "ok"}
         THEN [ok |-> FALSE, reason |-> "statusCode"]
    ELSE IF answer.status = "redirect" /\ ~answer.hasLocation
         THEN [ok |-> FALSE, reason |-> "statusCode"]
    ELSE LET snapshotFilename ==
                 IF answer.status = "redirect" THEN answer.name
                 ELSE EndpointName(snapshotType)
             node == parseSnapshotFilename(snapshotFilename, snapshotType)
         IN  IF ~node.ok THEN node
             ELSE IF node.slot > currentSlot
                  THEN [ok |-> FALSE, reason |-> "tooOld"]
             ELSE IF AgeExceeds(currentSlot - node.slot, maxAge)
                  THEN [ok |-> FALSE, reason |-> "tooOld"]
             ELSE [ok |-> TRUE, type |-> node.type, slot |-> node.slot,
                   base |-> node.base, rpcURL |-> ProbedAddr,
                   url |-> [host |-> ProbedAddr, name |-> snapshotFilename],
                   latency |-> answer.latency,
                   slotAge |-> currentSlot - node.slot,
                   filename |-> snapshotFilename]

\* Mutant of BaseSlotMatches: any incremental goes with the full.
BaseSlotMatches_Any(incrNode, fullNode) == TRUE

\* probePairedNode: incrNode.BaseSlot != fullNode.Slot is a mismatch.
BaseSlotMatches(incrNode, fullNode) == incrNode.base = fullNode.slot

\* probePairedNode: the full's probe with MaxSnapshotAgeSlots = 0.
ProbeFullSnapshot ==
    /\ pp.pc = "full"
    /\ LET fullNode == probeNodeOn(pp.answer.full, pp.currentSlot, "full",
                                   pp.maxLatency, 0)
       IN  pp' = IF fullNode.ok
                 THEN [pp EXCEPT !.full = fullNode, !.pc = "incremental"]
                 ELSE [pp EXCEPT !.full = fullNode, !.pc = "done",
                                 !.ret = [ok |-> FALSE, reason |-> "fullFailed"]]
    /\ UNCHANGED <<localVars, lockVars, dlVars, runVars, probeVars, ck, sr, nb, cw>>

\* probePairedNode: the incremental's probe with the age filter, then the
\* base slot validation and the return.
ProbeIncrementalSnapshot ==
    /\ pp.pc = "incremental"
    /\ LET incrNode == probeNodeOn(pp.answer.incremental, pp.currentSlot,
                                   "incremental", pp.maxLatency, pp.maxAge)
       IN  pp' = [pp EXCEPT
                    !.incr = incrNode,
                    !.pc = "done",
                    !.ret = IF ~incrNode.ok
                            THEN [ok |-> FALSE, reason |-> "incrFailed"]
                            ELSE IF ~BaseSlotMatches(incrNode, pp.full)
                            THEN [ok |-> FALSE, reason |-> "baseSlotMismatch"]
                            ELSE [ok |-> TRUE, full |-> pp.full,
                                  incremental |-> incrNode]]
    /\ UNCHANGED <<localVars, lockVars, dlVars, runVars, probeVars, ck, sr, nb, cw>>

\* File names a node may redirect to.
RemoteNames ==
    {[FullName(sl, "A") EXCEPT !.ext = e] :
        sl \in 0..MaxRemoteSlot, e \in {"zst", "tar"}}
    \cup {IncrName(b, sl, "A") : b \in 0..MaxRemoteSlot, sl \in 0..MaxRemoteSlot}
    \cup {TmpName(FullName(1, "A"))}

\* What a node answers to a HEAD request.
Answers ==
    {NoAnswer}
    \cup {[err |-> FALSE, latency |-> l, status |-> st, hasLocation |-> FALSE,
           host |-> "none", name |-> {}] :
            l \in 1..(MaxLatency + 1), st \in {"ok", "other", "redirect"}}
    \cup {[err |-> FALSE, latency |-> l, status |-> "redirect",
           hasLocation |-> TRUE, host |-> h, name |-> n] :
            l \in 1..(MaxLatency + 1), h \in Hosts, n \in RemoteNames}

InitPaired ==
    /\ LocalIdle
    /\ LockVarsIdle
    /\ DlVarsIdle
    /\ RunVarsIdle
    /\ ProbeVarsIdle
    /\ ck = ChunksIdle
    /\ sr = SortIdle
    /\ nb = BoundaryIdle
    /\ cw = WritesIdle
    /\ \E af \in Answers, ai \in Answers,
          t \in {MaxRemoteSlot - 1, MaxRemoteSlot},
          l \in 1..MaxLatency, g \in 1..MaxAge :
         pp = [PairedIdle EXCEPT
                 !.answer = [full |-> af, incremental |-> ai],
                 !.currentSlot = t, !.maxLatency = l, !.maxAge = g,
                 !.pc = "full"]

NextPaired ==
    \/ ProbeFullSnapshot
    \/ ProbeIncrementalSnapshot

SpecPaired == InitPaired /\ [][NextPaired]_vars

\* ------------------------------------- downloadChunk (positional writes)
\* Bytes in the range of a chunk; none when rangeEnd is below rangeStart.
RangeLen(r) == IF r.end >= r.start THEN r.end - r.start + 1 ELSE 0

\* downloadChunk up to the read loop: the GET with the Range header fails, or
\* gets a status other than 206, or gets a 206 whose body is as long as the
\* server makes it; offset := rangeStart.
ChunkGet(k) ==
    /\ cw.chunk[k].pc = "get"
    /\ \/ cw' = [cw EXCEPT !.chunk[k].pc = "err"]
       \/ \E n \in 0..(RangeLen(cw.chunk[k]) + MaxExtra) :
            cw' = [cw EXCEPT !.chunk[k].pc = "read", !.chunk[k].left = n]
    /\ UNCHANGED <<localVars, lockVars, dlVars, runVars, probeVars, ck, sr, nb, pp>>

\* downloadChunk, one turn of the read loop on a byte: f.WriteAt(buf[:n],
\* offset) and offset += n; io.EOF at the end of the body returns nil; any
\* other read error returns it.
ChunkRead(k) ==
    /\ cw.chunk[k].pc = "read"
    /\ \/ cw' = [cw EXCEPT !.chunk[k].pc = "err"]
       \/ /\ cw.chunk[k].left > 0
          /\ cw' = [cw EXCEPT
                     !.writes = @ \cup {<<k - 1, cw.chunk[k].offset>>},
                     !.chunk[k].offset = @ + 1,
                     !.chunk[k].left = @ - 1]
       \/ /\ cw.chunk[k].left = 0
          /\ cw' = [cw EXCEPT !.chunk[k].pc = "done"]
    /\ UNCHANGED <<localVars, lockVars, dlVars, runVars, probeVars, ck, sr, nb, pp>>

\* The workers of one downloadParallel call as the launch loop starts them:
\* worker i holds the range of chunk i.
InitChunkWrite ==
    /\ LocalIdle
    /\ LockVarsIdle
    /\ DlVarsIdle
    /\ RunVarsIdle
    /\ ProbeVarsIdle
    /\ ck = ChunksIdle
    /\ sr = SortIdle
    /\ nb = BoundaryIdle
    /\ pp = PairedIdle
    /\ \E clen \in 1..MaxWriteLen, conns \in 2..MaxWriteConns :
         cw = [clen |-> clen, conns |-> conns, writes |-> {},
               chunk |-> [k \in 1..conns |->
                  LET r == ChunkRange(clen, conns, k - 1)
                  IN  [pc |-> "get", start |-> r.start, end |-> r.end,
                       offset |-> r.start, left |-> 0]]]

NextChunkWrite ==
    \E k \in 1..MaxWriteConns :
        /\ k <= cw.conns
        /\ \/ ChunkGet(k)
           \/ ChunkRead(k)

SpecChunkWrite == InitChunkWrite /\ [][NextChunkWrite]_vars

\* ---------------------------------------------------------------- C9, C10
SetMax(S) == CHOOSE x \in S : \A y \in S : y <= x

\* C9: Prune postcondition. After a Prune that could read the directory: no
\* file ending in .tmp or .partial is left; if the directory held a full,
\* exactly one full is left and it has the highest slot, and the
\* incrementals left are exactly: none when no incremental had the retained
\* full's slot as base_slot, else one, with that base_slot and the highest
\* slot among those; if the directory held no full, every incremental is
\* still there. Prune only removes.
C9_PrunePostcondition ==
    (pr.count >= 1 /\ ~pr.err) =>
        LET b      == pr.before
            fullsB == PruneFulls(b)
            incsB  == PruneIncrementals(b)
            fullsD == PruneFulls(dir)
            incsD  == PruneIncrementals(dir)
        IN  /\ dir \subseteq b
            /\ \A f \in dir : f.isDir \/ f.suf \notin {"tmp", "partial"}
            /\ fullsB = {} => incsB \subseteq dir
            /\ fullsB # {} =>
                 /\ Cardinality(fullsD) = 1
                 /\ \A f \in fullsD :
                      /\ f.slot = SetMax({g.slot : g \in fullsB})
                      /\ LET matching == {i \in incsB : i.base = f.slot}
                         IN  /\ Cardinality(incsD) <= 1
                             /\ incsD \subseteq matching
                             /\ matching # {} => incsD # {}
                             /\ \A i \in incsD :
                                  i.slot = SetMax({j.slot : j \in matching})

\* C9 witness: a Prune of a directory with two fulls, an incremental of the
\* newest full, an orphaned incremental and a temp file has run.
C9_Witness ==
    /\ pr.count = 1
    /\ ~pr.err
    /\ Cardinality(PruneFulls(pr.before)) >= 2
    /\ PruneTempFiles(pr.before) # {}
    /\ \E i \in PruneIncrementals(pr.before) : i \notin dir
    /\ PruneIncrementals(dir) # {}

\* C10: Prune is idempotent. A Prune that runs right after a Prune removes
\* nothing: the directory after the second call is the directory before it.
C10_PruneIdempotent == (pr.count >= 2) => dir = pr.before

\* C10 witness: a second Prune has run after a first one that removed files.
C10_Witness ==
    /\ pr.count = 2
    /\ ~pr.err
    /\ PruneFulls(dir) # {}
    /\ PruneIncrementals(dir) # {}
    /\ Cardinality(dir) >= 3

\* ---------------------------------------------------------------------- C7
\* The inventory of the decision table: the entries that are files named by
\* the full or the incremental grammar.
TableInventory(d) ==
    {f \in d : /\ ~f.isDir
               /\ f.suf = ""
               /\ f.ext \in CompressedExts
               /\ f.stem \in {"snapshot", "incremental-snapshot"}}

\* The first-match decision table of the freshness assessor.
DecisionTable(d, rd, T, threshold) ==
    LET inv    == TableInventory(d)
        newest == SetMax({f.slot : f \in inv})
        fulls  == {f \in inv : f.stem = "snapshot"}
    IN  CASE ~rd                    -> <<"full", 0>>
          [] inv = {}               -> <<"full", 0>>
          [] newest >= T            -> <<"skip", 0>>
          [] T - newest <= threshold -> <<"skip", 0>>
          [] fulls # {}             -> <<"incremental",
                                         SetMax({f.slot : f \in fulls})>>
          [] OTHER                  -> <<"full", 0>>

\* C7: assessFreshness returns what the first-match decision table gives, for
\* every inventory, tip and threshold.
C7_AssessDecisionTable ==
    as.called =>
        <<as.mode, as.base>> = DecisionTable(dir, readable, as.tip, as.threshold)

\* C7 witness: the assessor has answered incremental for a directory whose
\* newest slot belongs to an incremental and lies more than the threshold
\* behind the tip.
C7_Witness ==
    /\ as.called
    /\ as.mode = "incremental"
    /\ as.base > 0
    /\ \E f \in dir : incrementalSnapshotRe(f) /\ ~f.isDir /\ f.slot > as.base
    /\ as.tip - as.threshold > as.base + 1

\* ---------------------------------------------------------------------- C3
\* A process holds the lock from acquireLock's successful return until it has
\* called releaseLock.
HoldsLock(p) == lk[p].pc \in {"run", "release"}

\* C3: the lock file prevents concurrent instances. In no reachable state
\* have two live processes both returned success from acquireLock with
\* neither having called releaseLock yet.
C3_MutualExclusion ==
    \A p, q \in Procs : (p # q) => ~(HoldsLock(p) /\ HoldsLock(q))

\* ---------------------------------------------------------------------- C4
DlRunning == dl.pc \notin {"idle", "returned"}

C5_DownloadTimeout ==
    (DlRunning /\ now - dl.start > opts.timeout) => InnerDone

\* ---------------------------------------------------------------------- C6
\* C6: the speed gate, on both paths. The gate cancels only with S > 0, D > 0
\* and fewer than S*D units delivered when D has elapsed; it lets a transfer
\* with S*D units or more pass; and a transfer it found too slow is aborted:
\* Download returns, and with an error (the claim names the speed error; any
\* error is accepted here).
C6_SpeedGate ==
    /\ [](xf.gate = "slow" =>
            /\ opts.minSpeed > 0
            /\ opts.delay > 0
            /\ xf.seen < opts.minSpeed * opts.delay)
    /\ [](xf.gate = "passed" => xf.seen >= opts.minSpeed * opts.delay)
    /\ [](xf.gate # "off" => (opts.minSpeed > 0 /\ opts.delay > 0))
    /\ ((xf.gate = "slow") ~> (dl.pc = "returned" /\ dl.err # "none"))

\* ---------------------------------------------------------------------- C1
NothingDone ==
    /\ calls.getSlot = 0
    /\ calls.getClusterNodes = 0
    /\ calls.probe = 0
    /\ calls.download = 0
    /\ calls.prune = 0
    /\ calls.onSuccess = 0
    /\ calls.onFailure = 0
    /\ rdl = NoDownload
    /\ dir = run.dir0

\* C1: when getIdentity at the start of Run answers the configured active
\* pubkey, Run has returned nil and the cycle did nothing: no getSlot, no
\* getClusterNodes, no probe, no download, no prune, no hook, and the
\* directory is as it was.
C1_ActiveNoop ==
    (run.role = "active") =>
        /\ run.pc = "returned"
        /\ run.ret = "nil"
        /\ NothingDone

\* C1 witness: a cycle that found the validator active and has returned, on a
\* directory that holds snapshots and a temp file.
C1_Witness ==
    /\ run.role = "active"
    /\ run.pc = "returned"
    /\ calls.getIdentity = 1
    /\ \E f \in dir : tempFileRe(f)

\* ---------------------------------------------------------------------- C8
\* C8: when assessFreshness answers skip, Run has returned nil without
\* getClusterNodes, probe, download, prune or hook, and the files of the
\* directory are those the cycle started with.
C8_SkipFrame ==
    (run.mode = "skip") =>
        /\ run.pc = "returned"
        /\ run.ret = "nil"
        /\ calls.getClusterNodes = 0
        /\ calls.probe = 0
        /\ calls.download = 0
        /\ calls.prune = 0
        /\ calls.onSuccess = 0
        /\ calls.onFailure = 0
        /\ rdl = NoDownload
        /\ dir = run.dir0

\* C8 witness: a passive validator with fresh local snapshots; the cycle asked
\* for the tip, assessed and returned.
C8_Witness ==
    /\ run.mode = "skip"
    /\ run.role = "passive"
    /\ run.pc = "returned"
    /\ calls.getSlot = 1
    /\ dir # {}

\* ---------------------------------------------------------------------- C2
\* C2: once the identity monitor has observed the active pubkey, a download
\* that is past its HEAD request (temp file created, transfer running) is one
\* whose context is cancelled; none runs on, and none is begun, on a live
\* context.
C2_AbortOnActive ==
    (mon.observed /\ rdl.pc = "xfer") => CtxDone(rdl.ctx)

\* --------------------------------------------------------------------- C11
\* A PID names a keeper process that has not exited.
PidAlive(pid) == \E q \in Procs : q = pid /\ lk[q].pc # "exited"

\* The step in which acquireLock of p reads the lock file and decides.
AcquireDecides(p) == lk[p].pc = "acquire" /\ lk'[p].pc # "acquire"

C12_LockLifecycle ==
    /\ [](\A p \in Procs : lockFile = LockFileOf(p) => HoldsLock(p))
    /\ [](\A p \in Procs :
            lk[p].pc \in {"sleep", "exited"} =>
                lk[p].ran + lk[p].skipped = lk[p].cycles)
    /\ [][\A p \in Procs :
            /\ (lk[p].pc = "release" /\ lk'[p].pc # "release") =>
                  /\ lockFile' = NoLockFile
                  /\ lk'[p].pc = IF lk[p].kind = "once" THEN "exited" ELSE "sleep"
            /\ (lk'[p].acquired = "error" /\ lk[p].acquired # "error") =>
                  /\ lk'[p].ran = lk[p].ran
                  /\ lockFile' = lockFile
                  /\ lk'[p].pc = IF lk[p].kind = "once" THEN "exited" ELSE "sleep"
            /\ (lk'[p].ran # lk[p].ran) => lk[p].acquired = "ok"]_vars

\* C12 witness: an interval process whose keeper.Run failed has released the
\* lock and sleeps until the next boundary; the lock file is gone.
C12_Witness ==
    \E p \in Procs :
        /\ lk[p].kind = "interval"
        /\ lk[p].pc = "sleep"
        /\ lk[p].ran >= 1
        /\ lk[p].runErr
        /\ lk[p].skipped >= 1
        /\ lockFile = NoLockFile

\* --------------------------------------------------------------------- C13
\* C13: when getIdentity at the start of Run fails, the role is "unknown" and
\* Run goes on as for a passive validator: it does not return before the
\* cluster tip was asked for, and what it then does is decided by the
\* assessment (skip returns nil, anything else asks for the cluster nodes).
C13_UnknownProceeds ==
    (run.role = "unknown") =>
        /\ calls.getSlot = 0 => run.pc = "getSlot"
        /\ (run.pc = "returned" /\ run.err = "none" /\ calls.getClusterNodes = 0)
              => run.mode = "skip"
        /\ (run.mode \in {"full", "incremental"} /\ run.pc = "returned")
              => calls.getClusterNodes = 1

\* C13 witness: a cycle with an unreachable local RPC that went past the
\* assessment and has a download behind it.
C13_Witness ==
    /\ run.role = "unknown"
    /\ run.mode = "full"
    /\ calls.getSlot = 1
    /\ calls.finalized >= 1
    /\ run.pc = "returned"

\* --------------------------------------------------------------------- C14
\* C14: a Run that ended on a failed cluster RPC, getSlot or getClusterNodes,
\* has returned the error and has run the on-failure hooks exactly once.
C14_ClusterRpcFailureHooks ==
    (run.pc = "returned" /\ run.err \in {"getSlot", "getClusterNodes"}) =>
        /\ run.ret = "err"
        /\ calls.onFailure = 1

\* --------------------------------------------------------------------- C15
\* C15: a Run that got as far as discovery returns the error exactly when no
\* download of the cycle succeeded (no candidate, or every candidate and
\* every paired full failed); it has then run the on-failure hooks once and
\* neither Prune nor the on-success hooks. No cycle runs both hook lists.
C15_FailureExactlyWhenNothingDownloaded ==
    /\ (run.pc = "returned" /\ calls.probe >= 1) =>
          ((run.ret = "err") <=> (calls.finalized = 0))
    /\ (run.pc = "returned" /\ calls.probe >= 1 /\ run.ret = "err") =>
          /\ calls.onFailure = 1
          /\ calls.prune = 0
          /\ calls.onSuccess = 0
    /\ ~(calls.onSuccess > 0 /\ calls.onFailure > 0)

\* C15 witness: two candidates were tried, both downloads failed, and Run has
\* returned the error.
C15_Witness ==
    /\ run.pc = "returned"
    /\ run.err = "allFailed"
    /\ calls.download >= 2
    /\ calls.started >= 1
    /\ calls.onFailure = 1

\* --------------------------------------------------------------------- C16
\* C16: after the assessment the mode changes only from incremental to full,
\* only in the step of the incremental discovery, and only when that
\* discovery found no candidate for the local full's slot; it changes at most
\* once, since nothing leads back to incremental.
C16_ModeTransitions ==
    [][(run.mode # "none" /\ run'.mode # run.mode) =>
          /\ run.mode = "incremental"
          /\ run'.mode = "full"
          /\ run.pc = "discoverInc"
          /\ run'.candidates = <<>>
          /\ calls.download = 0]_vars

\* C16 witness: incremental candidates were found and every download of them
\* failed; the mode is still incremental when Run returns the error.
C16_Witness ==
    /\ run.mode = "incremental"
    /\ run.pc = "returned"
    /\ run.err = "allFailed"
    /\ calls.download >= 1

\* --------------------------------------------------------------------- C17
\* C17: once a paired candidate's full is downloaded and its incremental has
\* failed, the pair counts as done: no further candidate is tried, the
\* on-failure hooks do not run, and Run prunes, runs the on-success hooks and
\* returns nil.
C17_PairedIncrementalNonFatal ==
    (run.pairedIncr = "err") =>
        /\ run.pairedDone
        /\ run.pc \in {"prune", "hooks", "returned"}
        /\ rdl = NoDownload
        /\ calls.fullOk = 1
        /\ calls.onFailure = 0
        /\ run.pc = "returned" =>
              (run.ret = "nil" /\ calls.prune = 1 /\ calls.onSuccess = 1)

\* C17 witness: two paired candidates, the first one's full downloaded and
\* its incremental failed; Run has returned after two Download calls.
C17_Witness ==
    /\ run.pairedIncr = "err"
    /\ Len(run.paired) = 2
    /\ run.i = 1
    /\ calls.download = 2
    /\ run.pc = "returned"

\* --------------------------------------------------------------------- C18
\* C18: in full mode the full-only discovery runs exactly when the paired
\* path did not succeed: never after a paired full was downloaded (and then
\* no second full is downloaded), and always before Run goes past the paired
\* attempt without one.
C18_FullOnlyIffPairedFailed ==
    /\ run.pairedDone => (calls.probeFull = 0 /\ calls.fullOk = 1)
    /\ calls.probeFull >= 1 => (run.mode = "full" /\ ~run.pairedDone)
    /\ calls.probeFull <= 1
    /\ calls.fullOk <= 1
    /\ (/\ run.mode = "full"
        /\ ~run.pairedDone
        /\ run.pc \in {"loop", "loopWait", "followDiscover", "followLoop",
                        "followWait", "prune", "hooks"}) => calls.probeFull = 1
    /\ (run.pc = "returned" /\ run.err \in {"noCandidates", "allFailed"}
        /\ run.mode = "full") => calls.probeFull = 1

\* C18 witness: every paired full download failed, the full-only discovery
\* ran and one of its candidates was downloaded.
C18_Witness ==
    /\ run.mode = "full"
    /\ Len(run.paired) >= 1
    /\ ~run.pairedDone
    /\ calls.probeFull = 1
    /\ calls.fullOk = 1
    /\ run.pc = "returned"

\* --------------------------------------------------------------------- C19
SuitableAddrs == {a \in ProbeAddrs : pg[a].suitable}

\* C19: with min_suitable = k > 0 and the caller's ctx not cancelled, a round
\* over addresses of which at least k are suitable returns at least k nodes,
\* and probeCtx is cancelled before the return only once k probes have been
\* counted as suitable.
C19_EarlyTerminationLowerBound ==
    (pb.k > 0 /\ ~pb.outer) =>
        /\ (pb.returned /\ Cardinality(SuitableAddrs) >= pb.k) =>
              Cardinality(pb.results) >= pb.k
        /\ (pb.done /\ ~pb.returned) => pb.suitable >= pb.k

\* C19 witness: a round that was stopped early, with more suitable addresses
\* than it returned.
C19_Witness ==
    /\ pb.k = MaxMinSuitable
    /\ ~pb.outer
    /\ pb.once
    /\ pb.returned
    /\ Cardinality(pb.results) = pb.k
    /\ Cardinality(SuitableAddrs) > pb.k

\* --------------------------------------------------------------------- C20
\* C20 as stated: with min_suitable = k > 0 and probe concurrency c, a round
\* returns at most k + c - 1 nodes in every interleaving of the probe
\* goroutines, and no probe that got its semaphore slot after the k-th
\* acceptance is among the results.
C20_EarlyTerminationUpperBound_Original ==
    (pb.k > 0) =>
        /\ pb.returned => Cardinality(pb.results) <= pb.k + pb.c - 1
        /\ \A a \in pb.results : ~pg[a].late

\* C20 amended: the bound k + c - 1 holds in every interleaving, and no probe
\* that got its semaphore slot after probeCtx was cancelled is among the
\* results (one that got it between the k-th acceptance and the cancel can
\* be).
C20_EarlyTerminationUpperBound ==
    (pb.k > 0) =>
        /\ pb.returned => Cardinality(pb.results) <= pb.k + pb.c - 1
        /\ \A a \in pb.results : ~pg[a].afterCancel

\* C20 witness: a round with two slots that returned k + c - 1 nodes, one of
\* them probed on a slot taken after the k-th acceptance, and left a
\* suitable address out.
C20_Witness ==
    /\ pb.k > 0
    /\ pb.c = MaxProbeConc
    /\ pb.returned
    /\ ~pb.outer
    /\ Cardinality(pb.results) = pb.k + pb.c - 1
    /\ \E a \in pb.results : pg[a].late
    /\ SuitableAddrs \ pb.results # {}
    /\ \E a \in ProbeAddrs : pg[a].afterCancel

\* The bytes a range asks for (none when its end is below its start).
ByteSet(r) == r.start .. r.end

\* C21: chunk tiling. Once the launch loop of downloadParallel is through, one
\* range was computed per connection, and every byte of
\* [0, content_length - 1] lies in exactly one of them and no range holds a
\* byte outside of it: no gap, no overlap.
C21_ChunkTiling ==
    (ck.clen > 0 /\ ck.i = ck.conns) =>
        /\ Len(ck.ranges) = ck.conns
        /\ UNION {ByteSet(ck.ranges[j]) : j \in 1..Len(ck.ranges)}
             = 0 .. (ck.clen - 1)
        /\ \A j, l \in 1..Len(ck.ranges) :
             (j # l) => ByteSet(ck.ranges[j]) \cap ByteSet(ck.ranges[l]) = {}

\* C21 witness: all ranges computed for a length the connections do not
\* divide, every chunk holding a byte and the last one taking the remainder.
C21_Witness ==
    /\ ck.clen > 0
    /\ ck.conns >= 2
    /\ ck.i = ck.conns
    /\ ck.clen % ck.conns # 0
    /\ \A j \in 1..Len(ck.ranges) : ByteSet(ck.ranges[j]) # {}
    /\ Cardinality(ByteSet(ck.ranges[ck.conns]))
         > Cardinality(ByteSet(ck.ranges[1]))

\* The key the list is ranked by.
sortKey(n, sortOrder) == IF sortOrder = "slot_age" THEN n.slotAge ELSE n.latency

\* The results of one key value, in the order they have in a list.
WithKey(nodes, sortOrder, v) ==
    LET Test(n) == sortKey(n, sortOrder) = v
    IN  SelectSeq(nodes, Test)

NonDecreasing(nodes, sortOrder) ==
    \A i, j \in 1..Len(nodes) :
        (i < j) => sortKey(nodes[i], sortOrder) <= sortKey(nodes[j], sortOrder)

\* C22: discovery ranking is a stable sort. The list sortNodes leaves is
\* non-decreasing in the key of the sort order, and the results of equal key
\* are in the order the gathered list had them in.
C22_StableRanking ==
    (sr.pc = "done") =>
        /\ NonDecreasing(sr.out, sr.order)
        /\ \A v \in 0..MaxKey :
             WithKey(sr.out, sr.order, v) = WithKey(sr.nodes, sr.order, v)

ProducedNodes == {n \in {pp.full, pp.incr} : n.ok}

\* C24: the data-model invariants of SnapshotNode. A full node has base slot
\* 0; an incremental node has a base slot above 0 and a slot above its base
\* slot.
C24_SnapshotNodeInvariants ==
    \A n \in ProducedNodes :
        /\ (n.type = "full") => n.base = 0
        /\ (n.type = "incremental") => (n.base > 0 /\ n.slot > n.base)

\* Whether probeNode, by the rules of the claim, passes an answer: it came in
\* time, it redirects to (or is) a snapshot name of the type asked for, and the
\* slot is not ahead of the tip.
Passes(answer, snapshotType) ==
    /\ ~answer.err
    /\ answer.latency <= pp.maxLatency
    /\ answer.status = "redirect"
    /\ answer.hasLocation
    /\ answer.name.stem =
         (IF snapshotType = "full" THEN "snapshot" ELSE "incremental-snapshot")
    /\ answer.name.ext \in CompressedExts
    /\ answer.name.slot <= pp.currentSlot

\* C25: what paired discovery returns for a node. A pair has both snapshots
\* on the probed address, the incremental's base slot is the full's slot, the
\* incremental is within the age limit and the full, of any age, is not ahead
\* of the tip; nothing is returned for a node whose full probe fails, whose
\* incremental probe fails, or whose base slot does not match.
C25_PairedNode ==
    (pp.pc = "done") =>
        /\ pp.ret.ok =>
             /\ pp.ret.full.url.host = ProbedAddr
             /\ pp.ret.incremental.url.host = ProbedAddr
             /\ pp.ret.full.rpcURL = pp.ret.incremental.rpcURL
             /\ pp.ret.full.type = "full"
             /\ pp.ret.incremental.type = "incremental"
             /\ pp.ret.incremental.base = pp.ret.full.slot
             /\ pp.ret.incremental.slot <= pp.currentSlot
             /\ pp.currentSlot - pp.ret.incremental.slot <= pp.maxAge
             /\ pp.ret.incremental.slotAge
                  = pp.currentSlot - pp.ret.incremental.slot
             /\ pp.ret.full.slot <= pp.currentSlot
        /\ pp.ret.ok <=>
             /\ Passes(pp.answer.full, "full")
             /\ Passes(pp.answer.incremental, "incremental")
             /\ pp.currentSlot - pp.answer.incremental.name.slot <= pp.maxAge
             /\ pp.answer.incremental.name.base = pp.answer.full.name.slot

\* C25 witness: a pair is returned whose full is older than the age limit.
C25_Witness ==
    /\ pp.pc = "done"
    /\ pp.ret.ok
    /\ pp.currentSlot - pp.ret.full.slot > pp.maxAge
    /\ pp.ret.incremental.slot > pp.ret.incremental.base
    /\ pp.answer.full.host # ProbedAddr

\* The Download calls made for some purposes, in the order they were made.
AttemptsFor(purposes) ==
    SelectSeq(run.attempts, LAMBDA a : a.purpose \in purposes)

\* A loop that stops at the first success: only its last call can have
\* returned anything but an error.
StopsAtFirstSuccess(tries) ==
    \A k \in 1..Len(tries) : (k < Len(tries)) => tries[k].outcome = "err"

\* C26: the paired path with a local full. A paired candidate whose full is
\* not newer than the local full is passed over without a Download call, so
\* every full asked for in the paired path is newer than the local one; the
\* candidates are taken in the order of the list (a candidate before the one
\* tried was tried before or passed over), and a full that arrived ends the
\* iteration.
C26_PairedSkipsOlderFull ==
    LET tries == AttemptsFor({"pairedFull"})
    IN  /\ calls.download = Len(run.attempts)
        /\ \A k \in 1..Len(tries) :
             /\ (run.localFullSlot > 0) => tries[k].file.slot > run.localFullSlot
             /\ tries[k].i \in 1..Len(run.paired)
             /\ tries[k].file = run.paired[tries[k].i].full.file
             /\ \A l \in 1..Len(tries) : (k < l) => tries[k].i < tries[l].i
             /\ \A j \in 1..(tries[k].i - 1) :
                  \/ \E l \in 1..(k - 1) : tries[l].i = j
                  \/ /\ run.localFullSlot > 0
                     /\ run.paired[j].full.slot <= run.localFullSlot
        /\ StopsAtFirstSuccess(tries)

\* C26 witness: with a local full, the first paired candidate was passed over
\* and the full of the second one downloaded.
C26_Witness ==
    /\ run.localFullSlot > 0
    /\ Len(run.paired) = 2
    /\ run.paired[1].full.slot <= run.localFullSlot
    /\ AttemptsFor({"pairedFull"}) # <<>>
    /\ AttemptsFor({"pairedFull"})[1].i = 2
    /\ AttemptsFor({"pairedFull"})[1].outcome = "ok"
    /\ run.pc = "returned"

\* C27: the incremental follow-up. tryDownloadIncremental is called only
\* once a full that was not paired has been downloaded; what it asks for are
\* incrementals on the slot of that full; it makes at most 3 Download calls,
\* on the first candidates of its list in their order, and none after one
\* that succeeded; and a cycle that called it prunes, runs the on-success
\* hooks and returns nil, whatever became of it.
C27_FollowUpNonFatal ==
    LET tries == AttemptsFor({"followup"})
        fulls == AttemptsFor({"full"})
    IN  /\ (run.followed \/ tries # <<>>) =>
             /\ run.followed
             /\ run.mode = "full"
             /\ ~run.pairedDone
             /\ AttemptsFor({"pairedIncr"}) = <<>>
             /\ fulls # <<>>
             /\ fulls[Len(fulls)].outcome = "ok"
             /\ run.selectedSlot = fulls[Len(fulls)].file.slot
             /\ FullName(run.selectedSlot, "B") \in dir \/ calls.prune > 0
        /\ Len(tries) <= 3
        /\ \A k \in 1..Len(tries) :
             /\ tries[k].i = k
             /\ tries[k].file.stem = "incremental-snapshot"
             /\ tries[k].file.base = run.selectedSlot
             /\ (run.pc \in {"followLoop", "followWait"}) =>
                   tries[k].file = run.candidates[k].file
        /\ StopsAtFirstSuccess(tries)
        /\ (run.followed /\ run.pc = "returned") =>
             /\ run.ret = "nil"
             /\ calls.prune = 1
             /\ calls.onSuccess = 1
             /\ calls.onFailure = 0

\* C27 witness: a cycle has returned whose follow-up had four candidates and
\* gave up after three failed Download calls.
C27_Witness ==
    /\ run.pc = "returned"
    /\ run.followed
    /\ Len(run.candidates) = 4
    /\ Len(AttemptsFor({"followup"})) = 3
    /\ \A k \in 1..3 : AttemptsFor({"followup"})[k].outcome = "err"

\* downloadParallel returns after wg.Wait: once Download has returned no chunk
\* worker is running (an invariant of SpecDl).
DownloadReturnsAfterWorkers ==
    (dl.pc \in {"failed", "rename", "returned"}) =>
        \A w \in Workers : wk[w].pc \in {"idle", "ok", "exit"}

\* C28: the order of a successful cycle. When Prune starts no Download call
\* is outstanding; the on-success hooks run after Prune, each once; and a
\* cycle that got as far as Prune returns nil, also when Prune returned an
\* error or an on-success hook failed.
C28_PruneAfterDownloads ==
    /\ (run.pc = "prune" \/ calls.prune > 0) =>
         /\ rdl.pc = "idle"
         /\ \A k \in 1..Len(run.attempts) : run.attempts[k].outcome # "pending"
         /\ run.result = "set"
    /\ calls.prune <= 1
    /\ calls.onSuccess <= calls.prune
    /\ (run.pc = "hooks") => (calls.prune = 1 /\ calls.onSuccess = 0)
    /\ (run.pc = "returned" /\ calls.prune > 0) =>
         (run.ret = "nil" /\ calls.onSuccess = 1)

\* C28 witness: a cycle that downloaded a full and an incremental has
\* returned nil although Prune could not read the directory and an
\* on-success hook failed.
C28_Witness ==
    /\ run.pc = "returned"
    /\ run.ret = "nil"
    /\ run.pruneErr
    /\ run.hookErr
    /\ calls.finalized = 2

\* C29: the candidate loop of Run. The k-th Download call of the loop is for
\* the k-th candidate of the list discovery returned, so each candidate is
\* tried at most once and a failed one is followed by the next; no call is
\* made after one that succeeded; and the loop gives up only when every
\* candidate has failed.
C29_CandidateLoop ==
    LET tries == AttemptsFor({"full", "incremental"})
    IN  /\ \A k \in 1..Len(tries) :
             /\ tries[k].i = k
             /\ (run.pc \in {"loop", "loopWait"}) =>
                   /\ k <= Len(run.candidates)
                   /\ tries[k].file = run.candidates[k].file
        /\ StopsAtFirstSuccess(tries)
        /\ (run.pc = "loop") =>
             /\ run.i = Len(tries) + 1
             /\ \A k \in 1..Len(tries) : tries[k].outcome = "err"
        /\ (run.pc = "returned" /\ run.err = "allFailed") =>
             /\ Len(tries) = Len(run.candidates)
             /\ \A k \in 1..Len(tries) : tries[k].outcome = "err"

\* C29 witness: in incremental mode the first candidate failed, the second
\* succeeded and the cycle returned.
C29_Witness ==
    /\ run.pc = "returned"
    /\ run.mode = "incremental"
    /\ Len(AttemptsFor({"incremental"})) = 2
    /\ AttemptsFor({"incremental"})[1].outcome = "err"
    /\ AttemptsFor({"incremental"})[2].outcome = "ok"

\* The slots of the full snapshots in a directory, as GetLocalSnapshots
\* sees them.
FullSlotsOnDisk(d) == {f.slot : f \in PruneFulls(d)}

\* C30: every incremental that is asked for extends a full on disk. While a
\* Download call for an incremental is under way the directory holds a full
\* of its base slot; in incremental mode that is the newest local full, in
\* the follow-up the full just downloaded, in the paired path the full of
\* the pair; and the lists DiscoverIncrementalForBase returned hold no node
\* of another base slot.
C30_IncrementalExtendsFullOnDisk ==
    /\ (rdl.pc # "idle" /\ rdl.file.stem = "incremental-snapshot") =>
         /\ rdl.file.base \in FullSlotsOnDisk(dir)
         /\ (rdl.purpose = "incremental") =>
               /\ rdl.file.base = run.localFullSlot
               /\ rdl.file.base = SetMax(FullSlotsOnDisk(dir))
         /\ (rdl.purpose = "followup") =>
               /\ rdl.file.base = run.selectedSlot
               /\ AttemptsFor({"full"})[Len(AttemptsFor({"full"}))].file.slot
                    = rdl.file.base
         /\ (rdl.purpose = "pairedIncr") =>
               rdl.file.base = run.paired[run.i].full.slot
    /\ (rdl.pc # "idle") =>
         (rdl.purpose \in {"incremental", "followup", "pairedIncr"}
            <=> rdl.file.stem = "incremental-snapshot")
    /\ (run.pc \in {"loop", "loopWait"} /\ run.mode = "incremental") =>
         \A k \in 1..Len(run.candidates) :
             run.candidates[k].base = run.localFullSlot
    /\ (run.pc \in {"followLoop", "followWait"}) =>
         \A k \in 1..Len(run.candidates) :
             run.candidates[k].base = run.selectedSlot

\* C30 witness: an incremental of the follow-up is being downloaded while
\* another node of the cluster serves an incremental of another base slot.
C30_Witness ==
    /\ rdl.pc = "xfer"
    /\ rdl.purpose = "followup"
    /\ \E n \in RemoteNodes :
         net[n].islot > 0 /\ net[n].ibase # run.selectedSlot

\* C31: the age filter of probeNode. An accepted node is not ahead of the
\* tip and carries slot_age = tip - slot; under a positive max_age its age is
\* within max_age; with max_age = 0 (the full of a paired probe) every answer
\* that parses and is not ahead of the tip is accepted, whatever its age; an
\* answer ahead of the tip or older than max_age is rejected.
C31_ProbeAgeFilter ==
    /\ \A n \in ProducedNodes :
         /\ n.slot <= pp.currentSlot
         /\ n.slotAge = pp.currentSlot - n.slot
    /\ pp.incr.ok => pp.incr.slotAge <= pp.maxAge
    /\ (pp.pc \in {"incremental", "done"}) =>
         (pp.full.ok <=> Passes(pp.answer.full, "full"))
    /\ (pp.pc = "done" /\ pp.full.ok) =>
         (pp.incr.ok <=>
            /\ Passes(pp.answer.incremental, "incremental")
            /\ pp.currentSlot - pp.answer.incremental.name.slot <= pp.maxAge)
    /\ (pp.pc = "done" /\ pp.ret.ok) =>
         /\ pp.ret.full = pp.full
         /\ pp.ret.incremental = pp.incr

\* C31 witness: the probe without age filter accepted a full older than
\* max_age, and the probe with the filter rejected an incremental that is
\* not ahead of the tip for its age.
C31_Witness ==
    /\ pp.pc = "done"
    /\ pp.full.ok
    /\ pp.full.slotAge > pp.maxAge
    /\ ~pp.incr.ok
    /\ pp.incr.reason = "tooOld"
    /\ pp.answer.incremental.name.slot <= pp.currentSlot

\* The goroutines that hold a semaphore slot: between sem <- struct{}{} and
\* the deferred <-sem.
SlotHolders ==
    {a \in ProbeAddrs :
        pg[a].pc \in {"probing", "probing2", "ok", "counted", "appended",
                      "rejected"}}

\* C32: the semaphore of a round of probes. The goroutines holding a slot
\* are never more than probe_concurrency, and every slot taken is held by a
\* goroutine that has not finished; probeCtx is cancelled only by the caller,
\* by early termination or at the return, and a goroutine whose probe was
\* rejected gives its slot back and leaves probeCtx, the results and the other
\* goroutines as they were.
C32_ProbeConcurrencyCap ==
    /\ [](/\ Cardinality(SlotHolders) <= pb.c
          /\ pb.sem = Cardinality(SlotHolders)
          /\ pb.done => (pb.outer \/ pb.once \/ pb.returned)
          /\ pb.once => (pb.k > 0 /\ pb.suitable >= pb.k))
    /\ [][\A a \in ProbeAddrs :
            ProbeRejected(a) =>
                /\ pb'.sem = pb.sem - 1
                /\ pb'.done = pb.done
                /\ pb'.results = pb.results
                /\ \A b \in ProbeAddrs \ {a} : pg'[b] = pg[b]]_vars

\* C32 witness: every slot is taken, a probe has been rejected before and an
\* address that has not been probed yet is waiting with probeCtx live.
C32_Witness ==
    /\ pb.c > 0
    /\ Cardinality(SlotHolders) = pb.c
    /\ \E a \in ProbeAddrs :
         pg[a].pc = "done" /\ ~pg[a].suitable /\ a \notin pb.results
    /\ \E a \in ProbeAddrs : pg[a].pc = "start"
    /\ ~pb.done

\* The chunk workers downloadParallel launched.
Launched == {i \in Workers : i < opts.conns}

\* A worker whose downloadChunk has returned an error.
WorkerFailed(i) == wk[i].pc \in {"errd", "cancel", "exit"}

\* C33: first error wins in downloadParallel. Once an error is recorded it
\* stays as it is whatever fails later; the first to record, the speed gate
\* or a worker, sets it; a speed gate that fires before any worker has failed
\* records the speed error; and downloadParallel returns the recorded error.
C33_FirstErrorWins ==
    /\ [][(dl.pc = "par_wait" /\ xf.derr # "none") => xf'.derr = xf.derr]_vars
    /\ [][\A i \in Workers :
            (WorkerErr(i) /\ xf.derr = "none") => xf'.derr = "chunk"]_vars
    /\ [][(GateFire /\ dl.pc = "par_wait" /\ xf'.gate = "slow"
            /\ \A i \in Launched : ~WorkerFailed(i))
             => xf'.derr = "speed"]_vars
    /\ []((UseParallel /\ dl.pc \in {"failed", "returned"}
            /\ dl.err \notin {"head", "rename"}) => dl.err = xf.derr)

\* C33 witness: the speed gate fired first, the workers it cancelled failed
\* and went through errOnce after it, and Download returned the speed error.
C33_Witness ==
    /\ UseParallel
    /\ dl.pc = "returned"
    /\ dl.err = "speed"
    /\ xf.gate = "slow"
    /\ \E i \in Launched : wk[i].pc = "exit"

\* C34: the outcome of a parallel download. When every chunk worker has
\* completed without error Download ends with the final file in place of the
\* temp file and reports content_length bytes (unless os.Rename itself
\* fails), whatever the speed gate does meanwhile; when a worker has failed
\* the shared context is cancelled, every worker has ended, Download returns
\* an error and the temp file is gone.
C34_ParallelOutcome ==
    (UseParallel /\ dl.pc = "returned" /\ dl.err # "head") =>
        /\ (\A i \in Launched : wk[i].pc = "ok") =>
              /\ dl.err \in {"none", "rename"}
              /\ (dl.err = "none") =>
                    /\ DlDest \in dir
                    /\ DlTemp \notin dir
                    /\ xf.total = srv.clen
        /\ (\E i \in Launched : WorkerFailed(i)) =>
              /\ dl.err # "none"
              /\ xf.inner
              /\ \A i \in Launched : wk[i].pc \in {"ok", "exit"}
              /\ DlTemp \notin dir

\* C35: the positional writes of a parallel download. Every write of worker
\* i is at an offset inside the range of chunk i, and no offset is written by
\* two workers, whatever number of bytes the server sends for a range.
C35_DisjointChunkWrites ==
    /\ \A w \in cw.writes :
         /\ cw.chunk[w[1] + 1].start <= w[2]
         /\ w[2] <= cw.chunk[w[1] + 1].end
    /\ \A v \in cw.writes, w \in cw.writes : (v[2] = w[2]) => v[1] = w[1]

\* C36: a skip rests on a usable chain. When assessFreshness answers skip
\* the directory holds a full snapshot, and the newest local slot is that of
\* the newest full or of an incremental built on the newest full.
C36_SkipHasUsableChain ==
    (as.called /\ as.mode = "skip") =>
        LET inv    == TableInventory(dir)
            fulls  == {f \in inv : f.stem = "snapshot"}
            incs   == {f \in inv : f.stem = "incremental-snapshot"}
            newest == SetMax({f.slot : f \in inv})
        IN  /\ fulls # {}
            /\ \/ newest = SetMax({f.slot : f \in fulls})
               \/ \E g \in incs : /\ g.slot = newest
                                  /\ g.base = SetMax({f.slot : f \in fulls})

\* The file Run reports to the on-success hooks (result.FilePath, with the
\* slot of selectedNode): the one the candidate loop or the paired path
\* downloaded as its result.
ReportedFiles ==
    {run.attempts[k].file :
        k \in {j \in 1..Len(run.attempts) :
                 /\ run.attempts[j].purpose \in {"pairedFull", "full", "incremental"}
                 /\ run.attempts[j].outcome = "ok"}}

\* C37: the snapshot reported to the on-success hooks survives Prune. When
\* the on-success hooks run, and when the cycle has returned after them, the
\* file the cycle downloaded and reports is in the snapshot directory.
C37_ReportedSnapshotSurvivesPrune ==
    (run.pc = "hooks" \/ (run.pc = "returned" /\ calls.onSuccess > 0)) =>
        /\ Cardinality(ReportedFiles) = 1
        /\ ReportedFiles \subseteq dir

\* C38: incremental discovery is complete for the requested base. When a
\* node serves a suitable incremental of the requested base slot and the
\* caller does not cancel, DiscoverIncrementalForBase returns a list that is
\* not empty, and Run stays in incremental mode, for every min_suitable and
\* every interleaving of the probes.
C38_IncrementalDiscoveryComplete ==
    (pb.filtered /\ ~pb.outer /\ pb.match # {}) =>
        /\ pb.matching # {}
        /\ ModeAfterIncrementalDiscovery("incremental", Cardinality(pb.matching))
             = "incremental"

\* C39: every Range request of the parallel downloader is well formed and
\* not empty. For every content length above 0 and more than one connection,
\* each chunk launched has 0 <= start <= end <= content_length - 1, also when
\* the content is shorter than the number of connections.
C39_WellFormedRanges ==
    (ck.conns > 1) =>
        \A k \in 1..Len(ck.ranges) :
            /\ 0 <= ck.ranges[k].start
            /\ ck.ranges[k].start <= ck.ranges[k].end
            /\ ck.ranges[k].end <= ck.clen - 1

\* A round of probes is over: the function has returned, probeCtx is
\* cancelled (which stops the progress reporter), every per-address goroutine
\* has finished and no semaphore slot is held.
DiscoveryOver ==
    /\ pb.returned
    /\ pb.done
    /\ pb.sem = 0
    /\ \A a \in ProbeAddrs : pg[a].pc = "done"

\* C40: discovery always terminates. For every probe concurrency that
\* configuration validation accepts and every min_suitable, with every HEAD
\* request completing or being cancelled, probeNodes and probePairedNodes
\* eventually return with all their goroutines finished.
C40_DiscoveryTerminates == <>DiscoveryOver

====
